---- MODULE Spec2Model ----
(***************************************************************************)
(* Verification model of the SPHERE cryptographic core                     *)
(* (backend/app/crypto): RSA, ECC on a short Weierstrass curve, HMAC,      *)
(* the KeyManager key store and the DataEncryptor envelope.                *)
(*                                                                         *)
(* Representation.  A Python str or bytes value is the sequence of its     *)
(* UTF-8 bytes (0..255).  A function that can raise returns either         *)
(* Ok(value) or Err(exception name).  Big integers are scaled down so that *)
(* every intermediate value fits TLC's integers: RSA moduli have 17 or 18  *)
(* bits (block size 2 bytes), the curve is y^2 = x^3 + 7 over F_43 with a  *)
(* generator of prime order 31 (same form as secp256k1: a = 0, b = 7,      *)
(* cofactor 1, n < p), and SHA-256 is replaced by a two-byte digest.       *)
(***************************************************************************)
EXTENDS Integers, Sequences, FiniteSets, TLC

VARIABLES
    files,      \* key store directory: file name -> stored JSON record
    clock,      \* datetime.utcnow(), in clock ticks
    archived,   \* history: records renamed away by rotate_keys
    env,        \* the envelope last produced by encrypt_data (persisted outside)
    res,        \* outcome of the last KeyManager / DataEncryptor call
    procs,      \* concurrent KeyManager calls in progress
    rsa,        \* RSA engine scenario: keypair, plaintext, ciphertext, result
    ecc,        \* ECC engine scenario: keypair, message, ciphertext/signature, result
    mac         \* SHA-256 / HMAC scenario: message, hash state, digest, tag, verdict

vars == <<files, clock, archived, env, res, procs, rsa, ecc, mac>>
storeVars == <<files, clock, archived, env, res, procs>>

Ok(v) == [ok |-> TRUE, val |-> v]
Err(e) == [ok |-> FALSE, err |-> e]

(***************************************************************************)
(* Integer helpers (Python int built-ins)                                  *)
(***************************************************************************)
RECURSIVE BitLength(_)
BitLength(blv) == IF blv = 0 THEN 0 ELSE 1 + BitLength(blv \div 2)

RECURSIVE Pow2(_)
Pow2(p2k) == IF p2k = 0 THEN 1 ELSE 2 * Pow2(p2k - 1)

RECURSIVE Pow256(_)
Pow256(p256k) == IF p256k = 0 THEN 1 ELSE 256 * Pow256(p256k - 1)

\* (ma * mb) % mm for 0 <= ma, mb < mm < 2^21, formed from two partial
\* products so that every intermediate value stays below 2^31
MulMod(ma, mb, mm) ==
    (((ma * (mb \div 512)) % mm) * 512 + ma * (mb % 512)) % mm

\* pow(pbase, pexp, pmod) for pexp >= 0, by square and multiply.  Every
\* power of 1 is 1 and a power that is zero stays zero; testing for the two
\* cases first has pbase and ph evaluated before the products are formed.
RECURSIVE PowMod(_, _, _)
PowMod(pbase, pexp, pmod) ==
    IF pexp = 0 \/ pbase % pmod = 1 THEN 1 % pmod
    ELSE LET ph == PowMod(pbase, pexp \div 2, pmod)
         IN  IF ph = 0 THEN 0
             ELSE IF pexp % 2 = 1 THEN MulMod(MulMod(ph, ph, pmod), pbase % pmod, pmod)
             ELSE MulMod(ph, ph, pmod)

\* math.gcd
RECURSIVE Gcd(_, _)
Gcd(ga, gb) == IF gb = 0 THEN ga ELSE Gcd(gb, ga % gb)

\* bitwise XOR of two xn-bit values
RECURSIVE XorBits(_, _, _)
XorBits(xa, xb, xn) ==
    IF xn = 0 THEN 0
    ELSE (IF xa % 2 = xb % 2 THEN 0 ELSE 1) + 2 * XorBits(xa \div 2, xb \div 2, xn - 1)

Xor8(x8a, x8b) == XorBits(x8a, x8b, 8)

(***************************************************************************)
(* Text helpers: hex(), str(int), int(s, 16), int(s), split(','), join     *)
(***************************************************************************)
Comma == 44

HexChar(hv) == IF hv < 10 THEN 48 + hv ELSE 87 + hv

\* hex(hn)[2:] for hn >= 0
RECURSIVE Hex(_)
Hex(hn) == IF hn < 16 THEN <<HexChar(hn)>> ELSE Append(Hex(hn \div 16), HexChar(hn % 16))

\* str(dn) for dn >= 0
RECURSIVE Dec(_)
Dec(dn) == IF dn < 10 THEN <<48 + dn>> ELSE Append(Dec(dn \div 10), 48 + (dn % 10))

IsHexChar(hc) == (hc \in 48..57) \/ (hc \in 97..102) \/ (hc \in 65..70)
HexVal(hc) == IF hc \in 48..57 THEN hc - 48 ELSE IF hc \in 97..102 THEN hc - 87 ELSE hc - 55
IsHexStr(hstr) == Len(hstr) > 0 /\ \A hi \in 1..Len(hstr) : IsHexChar(hstr[hi])

\* int(hs, 16) % hm for a string of hex digits of any length; pow(c, d, n)
\* depends on c through c % n alone
RECURSIVE HexToIntMod(_, _)
HexToIntMod(hs, hm) ==
    IF Len(hs) = 0 THEN 0
    ELSE (16 * HexToIntMod(SubSeq(hs, 1, Len(hs) - 1), hm) + HexVal(hs[Len(hs)])) % hm

IsDecStr(dstr) == Len(dstr) > 0 /\ \A di \in 1..Len(dstr) : dstr[di] \in 48..57

\* int(ds) for a string of decimal digits
RECURSIVE DecToInt(_)
DecToInt(ds) == IF Len(ds) = 0 THEN 0
                ELSE 10 * DecToInt(SubSeq(ds, 1, Len(ds) - 1)) + (ds[Len(ds)] - 48)

\* ss.split(','): always at least one part, parts may be empty
RECURSIVE Split(_)
Split(ss) ==
    IF \A si \in 1..Len(ss) : ss[si] # Comma THEN <<ss>>
    ELSE LET sfirst == CHOOSE sj \in 1..Len(ss) :
                           ss[sj] = Comma /\ \A sl \in 1..(sj - 1) : ss[sl] # Comma
         IN  <<SubSeq(ss, 1, sfirst - 1)>> \o Split(SubSeq(ss, sfirst + 1, Len(ss)))

\* ','.join(jparts)
RECURSIVE JoinComma(_)
JoinComma(jparts) ==
    IF Len(jparts) = 0 THEN <<>>
    ELSE IF Len(jparts) = 1 THEN jparts[1]
    ELSE jparts[1] \o <<Comma>> \o JoinComma(Tail(jparts))

RECURSIVE Concat(_)
Concat(cparts) == IF Len(cparts) = 0 THEN <<>> ELSE cparts[1] \o Concat(Tail(cparts))

\* removes one trailing null byte only
RStripZero_Once(rb) ==
    IF Len(rb) > 0 /\ rb[Len(rb)] = 0 THEN SubSeq(rb, 1, Len(rb) - 1) ELSE rb

\* bytes.rstrip(b'\x00')
RECURSIVE RStripZero(_)
RStripZero(rb) ==
    IF Len(rb) > 0 /\ rb[Len(rb)] = 0 THEN RStripZero(SubSeq(rb, 1, Len(rb) - 1)) ELSE rb

\* whether bytes.decode('utf-8') succeeds (well-formed UTF-8, Unicode table 3-7)
IsCont(cb, ci, lo, hi) == ci <= Len(cb) /\ cb[ci] >= lo /\ cb[ci] <= hi

RECURSIVE IsUtf8From(_, _)
IsUtf8From(ub, ui) ==
    IF ui > Len(ub) THEN TRUE
    ELSE LET uc == ub[ui] IN
         IF uc <= 127 THEN IsUtf8From(ub, ui + 1)
         ELSE IF uc \in 194..223 THEN IsCont(ub, ui + 1, 128, 191) /\ IsUtf8From(ub, ui + 2)
         ELSE IF uc \in 224..239 THEN
              /\ IsCont(ub, ui + 1, IF uc = 224 THEN 160 ELSE 128, IF uc = 237 THEN 159 ELSE 191)
              /\ IsCont(ub, ui + 2, 128, 191)
              /\ IsUtf8From(ub, ui + 3)
         ELSE IF uc \in 240..244 THEN
              /\ IsCont(ub, ui + 1, IF uc = 240 THEN 144 ELSE 128, IF uc = 244 THEN 143 ELSE 191)
              /\ IsCont(ub, ui + 2, 128, 191)
              /\ IsCont(ub, ui + 3, 128, 191)
              /\ IsUtf8From(ub, ui + 4)
         ELSE FALSE

IsUtf8(u8) == IsUtf8From(u8, 1)

(***************************************************************************)
(* RSA (crypto/rsa.py)                                                     *)
(***************************************************************************)
\* Model scale of RSA(key_size=...): two 9-bit primes, block size 2 bytes
KeySize == 18

\* values random.getrandbits(bits) may return in this model
RandBitsDraws == {1, 7, 33}

\* number of Miller-Rabin rounds, the default k of is_prime
MillerRabinRounds == 5

\* n - 1 = 2^r * d with d odd
RECURSIVE OddPart(_)
OddPart(om) == IF om % 2 = 0 THEN OddPart(om \div 2) ELSE om

RECURSIVE TwoExp(_)
TwoExp(tm) == IF tm % 2 = 0 THEN 1 + TwoExp(tm \div 2) ELSE 0

\* the inner "for _ in range(r - 1)" loop: TRUE when it breaks on x == n - 1
RECURSIVE SquareChain(_, _, _)
SquareChain(sx, sn, steps) ==
    IF steps = 0 THEN FALSE
    ELSE LET sx2 == PowMod(sx, 2, sn)
         IN  IF sx2 = sn - 1 THEN TRUE ELSE SquareChain(sx2, sn, steps - 1)

\* is_prime without the inner squaring loop
WitnessPasses_NoSquaring(n, a) ==
    LET d == OddPart(n - 1)
        x == PowMod(a, d, n)
    IN  x = 1 \/ x = n - 1

\* one iteration of the witness loop for witness a: TRUE = "continue"
WitnessPasses(n, a) ==
    LET r == TwoExp(n - 1)
        d == OddPart(n - 1)
        x == PowMod(a, d, n)
    IN  IF x = 1 \/ x = n - 1 THEN TRUE ELSE SquareChain(x, n, r - 1)

\* is_prime(n, k) when the k calls of random.randrange(2, n - 1) return ws
RSA_is_prime(n, ws) ==
    IF n < 2 THEN FALSE
    ELSE IF n = 2 \/ n = 3 THEN TRUE
    ELSE IF n % 2 = 0 THEN FALSE
    ELSE \A i \in 1..Len(ws) : WitnessPasses(n, ws[i])

\* is_prime(num) can return True: the k draws are independent and with
\* replacement, so some accepted draw sequence exists iff one witness passes
CanBeAccepted(n) ==
    IF n < 4 \/ n % 2 = 0 THEN RSA_is_prime(n, <<>>)
    ELSE \E a \in 2..(n - 2) : RSA_is_prime(n, [i \in 1..MillerRabinRounds |-> a])

\* num |= (1 << bits - 1) | 1
ForceBits(num, bits) ==
    LET top == IF num >= Pow2(bits - 1) THEN num ELSE num + Pow2(bits - 1)
    IN  IF top % 2 = 1 THEN top ELSE top + 1

\* the values generate_prime(bits) can return
RSA_generate_prime(bits) ==
    {num \in {ForceBits(x, bits) : x \in {y \in RandBitsDraws : y < Pow2(bits)}} :
        CanBeAccepted(num)}

GeneratedPrimes == RSA_generate_prime(KeySize \div 2)

\* extended_gcd(a, b) = <<gcd, x, y>>
RECURSIVE RSA_extended_gcd(_, _)
RSA_extended_gcd(ea, eb) ==
    IF ea = 0 THEN <<eb, 0, 1>>
    ELSE LET et == RSA_extended_gcd(eb % ea, ea)
         IN  <<et[1], et[3] - (eb \div ea) * et[2], et[2]>>

RSA_mod_inverse(e, phi) ==
    LET t == RSA_extended_gcd(e, phi)
    IN  IF t[1] # 1 THEN Err("ValueError") ELSE Ok(t[2] % phi)

DefaultE == 65537

\* generate_keypair() for primes p, q already drawn: set of <<public, private>>
RSA_keypairs_from(p, q) ==
    LET n == p * q
        phi == (p - 1) * (q - 1)
        es == IF Gcd(DefaultE, phi) = 1 THEN {DefaultE}
              ELSE {e \in 2..(phi - 1) : Gcd(e, phi) = 1}
    IN  {<<<<e, n>>, <<RSA_mod_inverse(e, phi).val, n>>>> : e \in es}

\* every keypair generate_keypair() can return
RSA_generate_keypair ==
    UNION {UNION {RSA_keypairs_from(p, q) : q \in GeneratedPrimes \ {p}} :
               p \in GeneratedPrimes}

RSA_encrypt_block(plaintext_block, public_key) ==
    PowMod(plaintext_block, public_key[1], public_key[2])

RSA_decrypt_block(ciphertext_block, private_key) ==
    PowMod(ciphertext_block, private_key[1], private_key[2])

RECURSIVE RSA_bytes_to_int(_)
RSA_bytes_to_int(data) ==
    IF Len(data) = 0 THEN 0
    ELSE 256 * RSA_bytes_to_int(SubSeq(data, 1, Len(data) - 1)) + data[Len(data)]

\* num.to_bytes(length, 'big'), for num < 256^length
RECURSIVE RSA_int_to_bytes(_, _)
RSA_int_to_bytes(num, length) ==
    IF length = 0 THEN <<>>
    ELSE Append(RSA_int_to_bytes(num \div 256, length - 1), num % 256)

\* block size without the margin of one bit
BlockSize_NoMargin(n) == BitLength(n) \div 8

BlockSize(n) == (BitLength(n) - 1) \div 8

\* while len(plaintext_bytes) % block_size != 0: plaintext_bytes += b'\x00'
RECURSIVE PadZero(_, _)
PadZero(pb, pblock) ==
    IF Len(pb) % pblock # 0 THEN PadZero(Append(pb, 0), pblock) ELSE pb

RSA_encrypt(plaintext, public_key) ==
    LET n == public_key[2]
        block_size == BlockSize(n)
    IN  IF block_size = 0 THEN Err("ZeroDivisionError")
        ELSE LET padded == PadZero(plaintext, block_size)
                 nblocks == Len(padded) \div block_size
                 block_int(i) ==
                     RSA_bytes_to_int(SubSeq(padded, (i - 1) * block_size + 1, i * block_size))
             IN  IF \E i \in 1..nblocks : block_int(i) >= n
                 THEN Err("ValueError")
                 ELSE Ok(JoinComma([i \in 1..nblocks |->
                             Hex(RSA_encrypt_block(block_int(i), public_key))]))

RSA_decrypt(ciphertext, private_key) ==
    LET n == private_key[2]
        hexParts == Split(ciphertext)
        block_size == BlockSize(n)
    IN  IF \E i \in 1..Len(hexParts) : ~IsHexStr(hexParts[i]) THEN Err("ValueError")
        ELSE LET dec(i) == RSA_decrypt_block(HexToIntMod(hexParts[i], n), private_key)
             IN  IF \E i \in 1..Len(hexParts) : dec(i) >= Pow256(block_size)
                 THEN Err("OverflowError")
                 ELSE LET decrypted_bytes ==
                              RStripZero(Concat([i \in 1..Len(hexParts) |->
                                             RSA_int_to_bytes(dec(i), block_size)]))
                      IN  IF IsUtf8(decrypted_bytes) THEN Ok(decrypted_bytes)
                          ELSE Err("UnicodeDecodeError")

(***************************************************************************)
(* SHA-256 and HMAC (crypto/mac.py)                                        *)
(*                                                                         *)
(* SHA256.hash is abstracted: a position-weighted checksum of DigestSize   *)
(* bytes stands for the 32-byte digest.  What the callers modelled here    *)
(* rely on is kept: the digest is a function of the message bytes alone    *)
(* and has a fixed length.  Distinct messages can collide, as they can in  *)
(* principle for SHA-256.                                                  *)
(***************************************************************************)
DigestSize == 2

HashModulus == 65521

HashWeight(wi) == ((wi * 131 + 7) * wi + 1) % HashModulus

RECURSIVE HashSum(_, _, _)
HashSum(hmsg, hlo, hhi) ==
    IF hlo > hhi THEN 0
    ELSE IF hlo = hhi THEN ((hmsg[hlo] + 1) * HashWeight(hlo)) % HashModulus
    ELSE (HashSum(hmsg, hlo, (hlo + hhi) \div 2)
            + HashSum(hmsg, (hlo + hhi) \div 2 + 1, hhi)) % HashModulus

SHA256_hash(message) ==
    LET hv == (HashSum(message, 1, Len(message)) + 27145 + 40503 * (Len(message) % 256))
                  % Pow256(DigestSize)
    IN  RSA_int_to_bytes(hv, DigestSize)

\* bytes.hex()
BytesHex(hb) == Concat([i \in 1..Len(hb) |-> <<HexChar(hb[i] \div 16), HexChar(hb[i] % 16)>>])

SHA256_hash_hex(message) == BytesHex(SHA256_hash(message))

HmacBlockSize == 64

\* HMAC.__init__: the padded key and the two derived keys of the object
HMAC_init(key) ==
    LET k0 == IF Len(key) > HmacBlockSize THEN SHA256_hash(key) ELSE key
        padded == [i \in 1..HmacBlockSize |-> IF i <= Len(k0) THEN k0[i] ELSE 0]
    IN  [key |-> padded,
         inner_key |-> [i \in 1..HmacBlockSize |-> Xor8(padded[i], 54)],
         outer_key |-> [i \in 1..HmacBlockSize |-> Xor8(padded[i], 92)]]

HMAC_compute(hmac, message) ==
    SHA256_hash(hmac.outer_key \o SHA256_hash(hmac.inner_key \o message))

HMAC_compute_hex(hmac, message) == BytesHex(HMAC_compute(hmac, message))

\* the comparison loop leaves result == 0 exactly when every pair of
\* characters is equal
HMAC_verify(hmac, message, expected_mac) ==
    LET computed_mac == HMAC_compute_hex(hmac, message)
    IN  IF Len(computed_mac) # Len(expected_mac) THEN FALSE
        ELSE \A i \in 1..Len(computed_mac) : computed_mac[i] = expected_mac[i]

(***************************************************************************)
(* Elliptic curve points and ECC (crypto/ecc.py)                           *)
(***************************************************************************)
\* curve parameters, scaled down from secp256k1: y^2 = x^3 + 7 over F_43,
\* generator of prime order 31
CurveA == 0
CurveB == 7
CurveP == 43
CurveGx == 2
CurveGy == 12
CurveN == 31

\* the coordinates of the point at infinity are None
PyNone == -1

Point(px, py) == [x |-> px, y |-> py, is_infinity |-> (px = PyNone /\ py = PyNone)]
Infinity == Point(PyNone, PyNone)
CurveG == Point(CurveGx, CurveGy)

IsErr(v) == "err" \in DOMAIN v

Point_eq(P, Q) == P.x = Q.x /\ P.y = Q.y /\ P.is_infinity = Q.is_infinity

RECURSIVE EC_extended_gcd(_, _)
EC_extended_gcd(ca, cb) ==
    IF ca = 0 THEN <<cb, 0, 1>>
    ELSE LET ct == EC_extended_gcd(cb % ca, ca)
         IN  <<ct[1], ct[3] - (cb \div ca) * ct[2], ct[2]>>

EC_mod_inverse(a, m) ==
    LET t == EC_extended_gcd(a % m, m)
    IN  IF t[1] # 1 THEN Err("ValueError") ELSE Ok(t[2] % m)

\* Point_double with the slope numerator 2*x^2 + a
Point_double_WrongSlope(P) ==
    IF P.is_infinity THEN P
    ELSE LET numerator == (2 * P.x * P.x + CurveA) % CurveP
             denominator == (2 * P.y) % CurveP
             inv == EC_mod_inverse(denominator, CurveP)
         IN  IF ~inv.ok THEN inv
             ELSE LET slope == (numerator * inv.val) % CurveP
                      x3 == (slope * slope - 2 * P.x) % CurveP
                      y3 == (slope * (P.x - x3) - P.y) % CurveP
                  IN  Point(x3, y3)

Point_double(P) ==
    IF P.is_infinity THEN P
    ELSE LET numerator == (3 * P.x * P.x + CurveA) % CurveP
             denominator == (2 * P.y) % CurveP
             inv == EC_mod_inverse(denominator, CurveP)
         IN  IF ~inv.ok THEN inv
             ELSE LET slope == (numerator * inv.val) % CurveP
                      x3 == (slope * slope - 2 * P.x) % CurveP
                      y3 == (slope * (P.x - x3) - P.y) % CurveP
                  IN  Point(x3, y3)

\* Point.__add__ that doubles whenever the x coordinates agree
Point_add_AlwaysDoubles(P, Q) ==
    IF IsErr(P) THEN P
    ELSE IF IsErr(Q) THEN Q
    ELSE IF P.is_infinity THEN Q
    ELSE IF Q.is_infinity THEN P
    ELSE IF P.x = Q.x THEN Point_double(P)
    ELSE LET inv == EC_mod_inverse(Q.x - P.x, CurveP)
         IN  IF ~inv.ok THEN inv
             ELSE LET slope == ((Q.y - P.y) * inv.val) % CurveP
                      x3 == (slope * slope - P.x - Q.x) % CurveP
                      y3 == (slope * (P.x - x3) - P.y) % CurveP
                  IN  Point(x3, y3)

\* Point.__add__; an operand that is already an exception propagates
Point_add(P, Q) ==
    IF IsErr(P) THEN P
    ELSE IF IsErr(Q) THEN Q
    ELSE IF P.is_infinity THEN Q
    ELSE IF Q.is_infinity THEN P
    ELSE IF P.x = Q.x THEN (IF P.y = Q.y THEN Point_double(P) ELSE Infinity)
    ELSE LET inv == EC_mod_inverse(Q.x - P.x, CurveP)
         IN  IF ~inv.ok THEN inv
             ELSE LET slope == ((Q.y - P.y) * inv.val) % CurveP
                      x3 == (slope * slope - P.x - Q.x) % CurveP
                      y3 == (slope * (P.x - x3) - P.y) % CurveP
                  IN  Point(x3, y3)

\* the "while k:" loop of scalar_multiply
RECURSIVE DoubleAndAdd(_, _, _)
DoubleAndAdd(result, addend, dk) ==
    IF dk = 0 THEN result
    ELSE IF IsErr(addend) THEN addend
    ELSE DoubleAndAdd(IF dk % 2 = 1 THEN Point_add(result, addend) ELSE result,
                      Point_double(addend), dk \div 2)

Point_scalar_multiply(P, k) ==
    IF P.is_infinity THEN P
    ELSE IF k = 0 THEN Infinity
    ELSE IF k < 0 THEN
        LET result == DoubleAndAdd(Infinity, P, -k)
        IN  IF IsErr(result) THEN result
            ELSE IF result.is_infinity THEN Err("TypeError")
            ELSE Point(result.x, (-result.y) % CurveP)
    ELSE DoubleAndAdd(Infinity, P, k)

\* str(coordinate).encode()
StrCoord(c) == IF c = PyNone THEN <<78, 111, 110, 101>> ELSE Dec(c)

\* the key_bytes both encrypt and decrypt derive from the shared point
KeyBytes(shared_secret) ==
    SHA256_hash(StrCoord(shared_secret.x) \o StrCoord(shared_secret.y))

\* the keystream is not repeated: zip(data, key_bytes)
XorStream_NoRepeat(data, key_bytes) ==
    [i \in 1..(IF Len(data) <= Len(key_bytes) THEN Len(data) ELSE Len(key_bytes)) |->
        Xor8(data[i], key_bytes[i])]

\* bytes(a ^ b for a, b in zip(data, key_bytes * (len(data) // len(key_bytes) + 1)))
XorStream(data, key_bytes) ==
    [i \in 1..Len(data) |-> Xor8(data[i], key_bytes[((i - 1) % Len(key_bytes)) + 1])]

\* every private key generate_keypair() can draw
ECC_private_keys == 1..(CurveN - 1)

ECC_public_key(private_key) == Point_scalar_multiply(CurveG, private_key)

\* encrypt() when random.randint(1, n - 1) returns k
ECC_encrypt(plaintext, public_key, k) ==
    LET C1 == Point_scalar_multiply(CurveG, k)
        shared_secret == Point_scalar_multiply(public_key, k)
    IN  IF IsErr(C1) THEN C1
        ELSE IF IsErr(shared_secret) THEN shared_secret
        ELSE Ok(StrCoord(C1.x) \o <<Comma>> \o StrCoord(C1.y) \o <<Comma>>
                    \o BytesHex(XorStream(plaintext, KeyBytes(shared_secret))))

\* bytes.fromhex(), for strings without whitespace
IsHexBytes(hx) == Len(hx) % 2 = 0 /\ \A i \in 1..Len(hx) : IsHexChar(hx[i])
BytesFromHex(hx) ==
    [i \in 1..(Len(hx) \div 2) |-> 16 * HexVal(hx[2 * i - 1]) + HexVal(hx[2 * i])]

ECC_decrypt(ciphertext, private_key) ==
    LET fields == Split(ciphertext)
    IN  IF Len(fields) < 3 THEN Err("IndexError")
        ELSE IF ~IsDecStr(fields[1]) \/ ~IsDecStr(fields[2]) THEN Err("ValueError")
        ELSE LET C1 == Point(DecToInt(fields[1]), DecToInt(fields[2]))
                 shared_secret == Point_scalar_multiply(C1, private_key)
             IN  IF IsErr(shared_secret) THEN shared_secret
                 ELSE IF ~IsHexBytes(fields[3]) THEN Err("ValueError")
                 ELSE LET decrypted_bytes ==
                              XorStream(BytesFromHex(fields[3]), KeyBytes(shared_secret))
                      IN  IF IsUtf8(decrypted_bytes) THEN Ok(decrypted_bytes)
                          ELSE Err("UnicodeDecodeError")

\* z = int.from_bytes(sha256.hash(message.encode()), 'big')
MessageHashInt(message) == RSA_bytes_to_int(SHA256_hash(message))

\* ECC_sign_try with s = (z + r*d) mod n, the inverse of k left out
ECC_sign_try_NoInverse(message, private_key, k) ==
    LET z == MessageHashInt(message)
        kG == Point_scalar_multiply(CurveG, k)
        r == kG.x % CurveN
        s == (z + r * private_key) % CurveN
    IN  IF r = 0 THEN Err("retry")
        ELSE IF s = 0 THEN Err("retry")
        ELSE Ok(<<r, s>>)

\* one iteration of the loop of sign() with the drawn k: Err("retry") stands
\* for "continue"
ECC_sign_try(message, private_key, k) ==
    LET z == MessageHashInt(message)
        kG == Point_scalar_multiply(CurveG, k)
        r == kG.x % CurveN
        k_inv == EC_mod_inverse(k, CurveN)
        s == (k_inv.val * (z + r * private_key)) % CurveN
    IN  IF r = 0 THEN Err("retry")
        ELSE IF ~k_inv.ok THEN k_inv
        ELSE IF s = 0 THEN Err("retry")
        ELSE Ok(<<r, s>>)

\* every signature sign() can return
ECC_sign(message, private_key) ==
    {ECC_sign_try(message, private_key, k).val :
        k \in {kk \in 1..(CurveN - 1) : ECC_sign_try(message, private_key, kk).ok}}

\* ECC_verify comparing r with the x-coordinate itself, not reduced modulo n
ECC_verify_NoReduce(message, signature, public_key) ==
    LET r == signature[1]
        s == signature[2]
    IN  IF ~(1 <= r /\ r < CurveN /\ 1 <= s /\ s < CurveN)
        THEN [ok |-> TRUE, val |-> FALSE, steps |-> <<>>]
        ELSE LET z == MessageHashInt(message)
                 w == EC_mod_inverse(s, CurveN)
                 u1 == (z * w.val) % CurveN
                 u2 == (r * w.val) % CurveN
                 point == Point_add(Point_scalar_multiply(CurveG, u1),
                                    Point_scalar_multiply(public_key, u2))
                 ran == <<"hash", "mod_inverse", "scalar_multiply",
                          "scalar_multiply", "add">>
             IN  IF point.is_infinity THEN [ok |-> TRUE, val |-> FALSE, steps |-> ran]
                 ELSE [ok |-> TRUE, val |-> (r = point.x), steps |-> ran]

\* ECC_verify with the range check 0 <= r <= n, 0 <= s <= n
ECC_verify_LooseRange(message, signature, public_key) ==
    LET r == signature[1]
        s == signature[2]
    IN  IF ~(0 <= r /\ r <= CurveN /\ 0 <= s /\ s <= CurveN)
        THEN [ok |-> TRUE, val |-> FALSE, steps |-> <<>>]
        ELSE LET z == MessageHashInt(message)
                 w == EC_mod_inverse(s, CurveN)
                 ran == <<"hash", "mod_inverse", "scalar_multiply",
                          "scalar_multiply", "add">>
             IN  IF ~w.ok THEN [ok |-> FALSE, err |-> w.err, steps |-> <<"hash", "mod_inverse">>]
                 ELSE LET point == Point_add(
                                  Point_scalar_multiply(CurveG, (z * w.val) % CurveN),
                                  Point_scalar_multiply(public_key, (r * w.val) % CurveN))
                      IN  IF point.is_infinity
                          THEN [ok |-> TRUE, val |-> FALSE, steps |-> ran]
                          ELSE [ok |-> TRUE, val |-> (r = point.x % CurveN), steps |-> ran]

\* verify(); steps lists what ran after the range check
ECC_verify(message, signature, public_key) ==
    LET r == signature[1]
        s == signature[2]
    IN  IF ~(1 <= r /\ r < CurveN /\ 1 <= s /\ s < CurveN)
        THEN [ok |-> TRUE, val |-> FALSE, steps |-> <<>>]
        ELSE LET z == MessageHashInt(message)
                 w == EC_mod_inverse(s, CurveN)
             IN  IF ~w.ok THEN [ok |-> FALSE, err |-> w.err, steps |-> <<"hash", "mod_inverse">>]
                 ELSE LET u1 == (z * w.val) % CurveN
                          u2 == (r * w.val) % CurveN
                          point1 == Point_scalar_multiply(CurveG, u1)
                          point2 == Point_scalar_multiply(public_key, u2)
                          point == Point_add(point1, point2)
                          ran == <<"hash", "mod_inverse", "scalar_multiply",
                                   "scalar_multiply", "add">>
                      IN  IF IsErr(point) THEN [ok |-> FALSE, err |-> point.err, steps |-> ran]
                          ELSE IF point.is_infinity
                               THEN [ok |-> TRUE, val |-> FALSE, steps |-> ran]
                          ELSE [ok |-> TRUE, val |-> (r = point.x % CurveN), steps |-> ran]

(***************************************************************************)
(* RSA engine scenario: generate_keypair(), encrypt(p, public), then       *)
(* decrypt(ciphertext, private)                                            *)
(***************************************************************************)
MaxPlainLen == 3

PlainBytes == {0, 65, 195, 169}

\* 10 * block_size bytes: ASCII, and ten two-byte characters
LongAscii == [i \in 1..20 |-> 64 + i]
LongUtf8 == [i \in 1..20 |-> IF i % 2 = 1 THEN 195 ELSE 169]

\* the str values handed to encrypt: every well-formed UTF-8 string over
\* PlainBytes of at most MaxPlainLen bytes, and the two long ones
Plaintexts ==
    {s \in UNION {[1..k -> PlainBytes] : k \in 0..MaxPlainLen} : IsUtf8(s)}
        \cup {LongAscii, LongUtf8}

\* fields that are not yet set hold a placeholder of the field's type
Unset == Err("unset")

NoRsa == [stage |-> "new", public_key |-> <<0, 0>>, private_key |-> <<0, 0>>,
          plaintext |-> <<>>, ciphertext |-> Unset, decrypted |-> Unset]

NoVerdict == [ok |-> FALSE, err |-> "unset", steps |-> <<>>]

NoEcc == [stage |-> "new", private_key |-> 0, public_key |-> Infinity,
          plaintext |-> <<>>, k |-> 0, ciphertext |-> Unset, decrypted |-> Unset,
          message |-> <<>>, signature |-> <<0, 0>>, signer |-> 0,
          verdict |-> NoVerdict]

NoMac == [stage |-> "new", message |-> <<>>, padded |-> <<>>, h |-> <<>>,
          offset |-> 0, digest |-> <<>>, hexdigest |-> <<>>, key |-> <<>>,
          hmac |-> <<>>, tag |-> <<>>, presented |-> <<>>, expected_mac |-> <<>>, verdict |-> FALSE]

InitRSA ==
    /\ rsa = NoRsa
    /\ ecc = NoEcc
    /\ mac = NoMac
    /\ files = <<>> /\ clock = 0 /\ archived = {} /\ env = Unset
    /\ res = Unset /\ procs = <<>>

RsaGenerateKeypair ==
    /\ rsa.stage = "new"
    /\ \E kp \in RSA_generate_keypair :
          rsa' = [rsa EXCEPT !.stage = "keyed", !.public_key = kp[1],
                             !.private_key = kp[2]]
    /\ UNCHANGED <<storeVars, ecc, mac>>

RsaEncrypt ==
    /\ rsa.stage = "keyed"
    /\ \E p \in Plaintexts :
          rsa' = [rsa EXCEPT !.stage = "encrypted", !.plaintext = p,
                             !.ciphertext = RSA_encrypt(p, rsa.public_key)]
    /\ UNCHANGED <<storeVars, ecc, mac>>

RsaDecrypt ==
    /\ rsa.stage = "encrypted"
    /\ rsa.ciphertext.ok
    /\ rsa' = [rsa EXCEPT !.stage = "decrypted",
                          !.decrypted = RSA_decrypt(rsa.ciphertext.val, rsa.private_key)]
    /\ UNCHANGED <<storeVars, ecc, mac>>

NextRSA == RsaGenerateKeypair \/ RsaEncrypt \/ RsaDecrypt

SpecRSA == InitRSA /\ [][NextRSA]_vars

EndsInNull(p) == Len(p) > 0 /\ p[Len(p)] = 0

RsaListedLength(p, n) ==
    Len(p) \in {0, 1, BlockSize(n) - 1, BlockSize(n), 10 * BlockSize(n)}

\* C6: for every generated keypair and every plaintext of 0, 1, block_size-1,
\* block_size or 10*block_size bytes that does not end in a null byte,
\* encrypt succeeds and decrypt(encrypt(p, public), private) returns p.
C6_RsaRoundTrip ==
    (/\ rsa.stage \in {"encrypted", "decrypted"}
     /\ RsaListedLength(rsa.plaintext, rsa.public_key[2])
     /\ ~EndsInNull(rsa.plaintext))
    => /\ rsa.ciphertext.ok
       /\ rsa.stage = "decrypted" => rsa.decrypted = Ok(rsa.plaintext)

(***************************************************************************)
(* ECC engine scenario: generate_keypair(), then encrypt / decrypt, or     *)
(* sign / verify, or verify of a signature received from outside           *)
(***************************************************************************)
EccPlaintexts == {<<>>, <<65>>, <<195, 169>>, <<65, 0>>, <<65, 66, 67>>, <<66, 195, 169, 0, 67>>}

Messages == {<<>>, <<84, 101, 115, 116>>, <<195, 169>>}

\* signature components outside [1, n-1], and two inside
ForgedComponents == {-1, 0, 1, CurveN - 1, CurveN, CurveN + 1}

InitECC ==
    /\ rsa = NoRsa
    /\ ecc = NoEcc
    /\ mac = NoMac
    /\ files = <<>> /\ clock = 0 /\ archived = {} /\ env = Unset
    /\ res = Unset /\ procs = <<>>

EccGenerateKeypair ==
    /\ ecc.stage = "new"
    /\ \E private_key \in ECC_private_keys :
          ecc' = [ecc EXCEPT !.stage = "keyed", !.private_key = private_key,
                             !.public_key = ECC_public_key(private_key)]
    /\ UNCHANGED <<storeVars, rsa, mac>>

EccEncrypt ==
    /\ ecc.stage = "keyed"
    /\ \E p \in EccPlaintexts, k \in 1..(CurveN - 1) :
          ecc' = [ecc EXCEPT !.stage = "encrypted", !.plaintext = p, !.k = k,
                             !.ciphertext = ECC_encrypt(p, ecc.public_key, k)]
    /\ UNCHANGED <<storeVars, rsa, mac>>

EccDecrypt ==
    /\ ecc.stage = "encrypted"
    /\ ecc.ciphertext.ok
    /\ ecc' = [ecc EXCEPT !.stage = "decrypted",
                          !.decrypted = ECC_decrypt(ecc.ciphertext.val, ecc.private_key)]
    /\ UNCHANGED <<storeVars, rsa, mac>>

EccSign ==
    /\ ecc.stage = "keyed"
    /\ \E m \in Messages :
          \E sig \in ECC_sign(m, ecc.private_key) :
              ecc' = [ecc EXCEPT !.stage = "signed", !.message = m, !.signature = sig,
                                 !.signer = ecc.private_key]
    /\ UNCHANGED <<storeVars, rsa, mac>>

\* verify the signature just produced under the public key of any identity
EccVerify ==
    /\ ecc.stage = "signed"
    /\ \E d2 \in ECC_private_keys :
          ecc' = [ecc EXCEPT !.stage = "verified", !.private_key = d2,
                             !.public_key = ECC_public_key(d2),
                             !.verdict = ECC_verify(ecc.message, ecc.signature,
                                                    ECC_public_key(d2))]
    /\ UNCHANGED <<storeVars, rsa, mac>>

\* verify a signature that did not come from sign()
EccVerifyForged ==
    /\ ecc.stage = "keyed"
    /\ \E m \in Messages, r \in ForgedComponents, s \in ForgedComponents :
          ecc' = [ecc EXCEPT !.stage = "forged", !.message = m, !.signature = <<r, s>>,
                             !.verdict = ECC_verify(m, <<r, s>>, ecc.public_key)]
    /\ UNCHANGED <<storeVars, rsa, mac>>

NextECC ==
    \/ EccGenerateKeypair
    \/ EccEncrypt
    \/ EccDecrypt
    \/ EccSign
    \/ EccVerify
    \/ EccVerifyForged

SpecECC == InitECC /\ [][NextECC]_vars

\* C7: for every private scalar d, every ephemeral k and every plaintext,
\* decrypt(encrypt(p, d*G), d) returns p, and both sides derive the keystream
\* from the same point: d*(k*G) = k*(d*G).
C7_EccRoundTrip ==
    /\ ecc.stage \in {"encrypted", "decrypted"} =>
          /\ ecc.ciphertext.ok
          /\ Point_scalar_multiply(Point_scalar_multiply(CurveG, ecc.k), ecc.private_key)
                = Point_scalar_multiply(ecc.public_key, ecc.k)
    /\ ecc.stage = "decrypted" => ecc.decrypted = Ok(ecc.plaintext)

C7_Witness ==
    /\ ecc.stage = "decrypted"
    /\ ecc.plaintext = <<66, 195, 169, 0, 67>>
    /\ ecc.decrypted = Ok(ecc.plaintext)

InRange(v) == 1 <= v /\ v < CurveN

\* C8: a signature returned by sign(m, d) has r and s in [1, n-1] and is
\* accepted by verify(m, (r, s), d*G).
C8_SignVerifies ==
    /\ ecc.stage \in {"signed", "verified"} =>
          InRange(ecc.signature[1]) /\ InRange(ecc.signature[2])
    /\ (ecc.stage = "verified" /\ ecc.private_key = ecc.signer) =>
          (ecc.verdict.ok /\ ecc.verdict.val)

C8_Witness ==
    /\ ecc.stage = "verified"
    /\ ecc.private_key = ecc.signer
    /\ ecc.message = <<84, 101, 115, 116>>
    /\ ecc.verdict.ok /\ ecc.verdict.val

\* C9 as stated: a signature made with d1 is rejected under the public key
\* of every other private scalar d2.
C9_OtherKeyRejected ==
    (ecc.stage = "verified" /\ ecc.private_key # ecc.signer) =>
        (ecc.verdict.ok /\ ~ecc.verdict.val)

\* the second private scalar that an ECDSA signature (r, s) on hash z fits:
\* -(d1 + 2*z/r) mod n, the key that maps the recomputed point to -(k*G)
TwinKey(d1, z, r) ==
    (CurveN - ((d1 + 2 * z * EC_mod_inverse(r, CurveN).val) % CurveN)) % CurveN

\* x-coordinates of the multiples of G
CurveXs == {Point_scalar_multiply(CurveG, k).x : k \in 1..(CurveN - 1)}

\* residues mod n shared by two different x-coordinates of curve points
AliasedRs == {x1 % CurveN : x1 \in {x2 \in CurveXs : \E x3 \in CurveXs :
                                        x3 # x2 /\ x3 % CurveN = x2 % CurveN}}

AliasedR(r) == r \in AliasedRs

\* C9 (amended): verify never raises on a signature made by sign; under the
\* public key of another scalar d2 it accepts when d2 is the twin key
\* -(d1 + 2*z/r) mod n, and rejects every other d2 unless two different
\* x-coordinates of curve points are congruent to r modulo n.
C9_OtherKeyRejectedExceptTwin ==
    (ecc.stage = "verified" /\ ecc.private_key # ecc.signer) =>
        /\ ecc.verdict.ok
        /\ ecc.private_key = TwinKey(ecc.signer, MessageHashInt(ecc.message),
                                     ecc.signature[1])
              => ecc.verdict.val
        /\ (/\ ecc.private_key # TwinKey(ecc.signer, MessageHashInt(ecc.message),
                                        ecc.signature[1])
            /\ ~AliasedR(ecc.signature[1]))
              => ~ecc.verdict.val

C9_Witness ==
    /\ ecc.stage = "verified"
    /\ ecc.private_key # ecc.signer
    /\ ecc.private_key # TwinKey(ecc.signer, MessageHashInt(ecc.message), ecc.signature[1])
    /\ ~AliasedR(ecc.signature[1])
    /\ ecc.verdict.ok /\ ~ecc.verdict.val

\* C10: for a signature with r or s outside [1, n-1], verify returns false,
\* raises nothing and runs no hashing, inversion or point arithmetic.
C10_OutOfRangeRejected ==
    (/\ ecc.stage \in {"verified", "forged"}
     /\ ~(InRange(ecc.signature[1]) /\ InRange(ecc.signature[2])))
    => /\ ecc.verdict.ok
       /\ ~ecc.verdict.val
       /\ ecc.verdict.steps = <<>>

C10_Witness ==
    /\ ecc.stage = "forged"
    /\ ecc.signature = <<CurveN, 1>>
    /\ ecc.verdict.ok /\ ~ecc.verdict.val /\ ecc.verdict.steps = <<>>

(***************************************************************************)
(* KeyManager (crypto/key_management.py)                                   *)
(*                                                                         *)
(* The storage directory is a function from file names to files.  A file   *)
(* name is a record: f"{user_id}_{kind}.json" has bak = FALSE, and         *)
(* f"{user_id}_{kind}_{timestamp}.json.bak" has bak = TRUE.  A file holds   *)
(* the JSON object written to it and its permission bits.  Times are clock *)
(* ticks; strftime("%Y%m%d_%H%M%S") keeps whole seconds, isoformat() keeps *)
(* the tick.  Renaming follows POSIX: an existing target is replaced.      *)
(***************************************************************************)
Users == {"alice"}

TicksPerSecond == 3

MaxClock == 3

\* timedelta(days=365)
KeyLifetime == 365 * 86400 * TicksPerSecond

\* permission bits of a file created by open(path, 'w'), and 0o600
ModeCreated == 420
ModePrivate == 384

\* Optional[...] results are Ok(value) or Absent (None)
Absent == Err("None")

PublicPath(user_id) ==
    [user_id |-> user_id, kind |-> "public", bak |-> FALSE, timestamp |-> 0]
PrivatePath(user_id) ==
    [user_id |-> user_id, kind |-> "private", bak |-> FALSE, timestamp |-> 0]
ArchivePath(user_id, kind, timestamp) ==
    [user_id |-> user_id, kind |-> kind, bak |-> TRUE, timestamp |-> timestamp]

Exists(fs, path) == path \in DOMAIN fs

\* open(path, 'w') and json.dump: creates the file or replaces its content
WriteFile(fs, path, data) ==
    [f \in DOMAIN fs \cup {path} |->
        IF f = path
        THEN [data |-> data,
              mode |-> IF Exists(fs, path) THEN fs[path].mode ELSE ModeCreated]
        ELSE fs[f]]

Chmod(fs, path, mode) == [fs EXCEPT ![path].mode = mode]

\* Path.rename(target)
Rename(fs, path, target) ==
    [f \in (DOMAIN fs \ {path}) \cup {target} |->
        IF f = target THEN fs[path] ELSE fs[f]]

\* Path.unlink()
Unlink(fs, path) == [f \in DOMAIN fs \ {path} |-> fs[f]]

\* %Y%m%d_%H%M%S of a clock reading
Strftime(now) == now \div TicksPerSecond

\* what one call of generate_user_keys draws: the RSA keypair, the ECC
\* private key, and the ticks between its two utcnow() readings
UserKeyDraws ==
    [rsa : RSA_generate_keypair, ecc : {5}, gap : {0, 1}]

\* generate_user_keys when the two clock readings are t1 and t2
KM_generate_user_keys(user_id, draw, t1, t2) ==
    [user_id |-> user_id,
     generated_at |-> t1,
     expires_at |-> t2 + KeyLifetime,
     rsa |-> [public |-> [e |-> draw.rsa[1][1], n |-> draw.rsa[1][2]],
              private |-> [d |-> draw.rsa[2][1], n |-> draw.rsa[2][2]]],
     ecc |-> [public |-> [x |-> ECC_public_key(draw.ecc).x,
                          y |-> ECC_public_key(draw.ecc).y,
                          curve |-> "secp256k1"],
              private |-> draw.ecc]]

\* the places where save_keys can meet an OSError
IoFaults == {"none", "open_public", "open_private", "chmod"}
NoFaults == {"none"}

PublicRecord(user_id, keys) ==
    [user_id |-> user_id, rsa_public |-> keys.rsa.public,
     ecc_public |-> keys.ecc.public, generated_at |-> keys.generated_at,
     expires_at |-> keys.expires_at]

PrivateRecord(user_id, keys) ==
    [user_id |-> user_id, rsa_private |-> keys.rsa.private,
     ecc_private |-> keys.ecc.private, generated_at |-> keys.generated_at]

\* save_keys without the os.chmod call
KM_save_keys_NoChmod(fs, user_id, keys, fault) ==
    LET fs1 == WriteFile(fs, PublicPath(user_id), PublicRecord(user_id, keys))
        fs2 == WriteFile(fs1, PrivatePath(user_id), PrivateRecord(user_id, keys))
    IN  IF fault = "open_public" THEN [files |-> fs, result |-> FALSE]
        ELSE IF fault = "open_private" THEN [files |-> fs1, result |-> FALSE]
        ELSE IF fault = "chmod" THEN [files |-> fs2, result |-> FALSE]
        ELSE [files |-> fs2, result |-> TRUE]

KM_save_keys(fs, user_id, keys, fault) ==
    LET fs1 == WriteFile(fs, PublicPath(user_id), PublicRecord(user_id, keys))
        fs2 == WriteFile(fs1, PrivatePath(user_id), PrivateRecord(user_id, keys))
    IN  IF fault = "open_public" THEN [files |-> fs, result |-> FALSE]
        ELSE IF fault = "open_private" THEN [files |-> fs1, result |-> FALSE]
        ELSE IF fault = "chmod" THEN [files |-> fs2, result |-> FALSE]
        ELSE [files |-> Chmod(fs2, PrivatePath(user_id), ModePrivate),
              result |-> TRUE]

KM_load_public_keys(fs, user_id) ==
    IF Exists(fs, PublicPath(user_id)) THEN Ok(fs[PublicPath(user_id)].data)
    ELSE Absent

KM_load_private_keys(fs, user_id) ==
    IF Exists(fs, PrivatePath(user_id)) THEN Ok(fs[PrivatePath(user_id)].data)
    ELSE Absent

KM_get_rsa_public_key(fs, user_id) ==
    LET keys == KM_load_public_keys(fs, user_id)
    IN  IF ~keys.ok THEN Absent
        ELSE Ok(<<keys.val.rsa_public.e, keys.val.rsa_public.n>>)

KM_get_rsa_private_key(fs, user_id) ==
    LET keys == KM_load_private_keys(fs, user_id)
    IN  IF ~keys.ok THEN Absent
        ELSE Ok(<<keys.val.rsa_private.d, keys.val.rsa_private.n>>)

KM_get_ecc_public_key(fs, user_id) ==
    LET keys == KM_load_public_keys(fs, user_id)
    IN  IF ~keys.ok THEN Absent
        ELSE Ok(Point(keys.val.ecc_public.x, keys.val.ecc_public.y))

KM_get_ecc_private_key(fs, user_id) ==
    LET keys == KM_load_private_keys(fs, user_id)
    IN  IF ~keys.ok THEN Absent ELSE Ok(keys.val.ecc_private)

\* rotate_keys that renames only the public file and leaves the private
\* file to be overwritten in place
KM_rotate_keys_NoPrivateArchive(fs, user_id, now, draw, t1, t2, fault) ==
    LET timestamp == Strftime(now)
        fs1 == IF Exists(fs, PublicPath(user_id))
               THEN Rename(fs, PublicPath(user_id),
                           ArchivePath(user_id, "public", timestamp))
               ELSE fs
    IN  KM_save_keys(fs1, user_id, KM_generate_user_keys(user_id, draw, t1, t2), fault)

\* rotate_keys called at clock reading now; the key generation inside it
\* reads the clock at t1 and t2
KM_rotate_keys(fs, user_id, now, draw, t1, t2, fault) ==
    LET timestamp == Strftime(now)
        fs1 == IF Exists(fs, PublicPath(user_id))
               THEN Rename(fs, PublicPath(user_id),
                           ArchivePath(user_id, "public", timestamp))
               ELSE fs
        fs2 == IF Exists(fs1, PrivatePath(user_id))
               THEN Rename(fs1, PrivatePath(user_id),
                           ArchivePath(user_id, "private", timestamp))
               ELSE fs1
    IN  KM_save_keys(fs2, user_id, KM_generate_user_keys(user_id, draw, t1, t2), fault)

KM_delete_keys(fs, user_id) ==
    LET fs1 == IF Exists(fs, PublicPath(user_id))
               THEN Unlink(fs, PublicPath(user_id)) ELSE fs
        fs2 == IF Exists(fs1, PrivatePath(user_id))
               THEN Unlink(fs1, PrivatePath(user_id)) ELSE fs1
    IN  [files |-> fs2, result |-> TRUE]

(***************************************************************************)
(* DataEncryptor (crypto/encryption_utils.py)                              *)
(***************************************************************************)
\* "SPHERE_SYSTEM_HMAC_KEY_2025"
HmacSystemKey ==
    <<83, 80, 72, 69, 82, 69, 95, 83, 89, 83, 84, 69, 77, 95, 72, 77, 65, 67,
      95, 75, 69, 89, 95, 50, 48, 50, 53>>

\* HMAC(self.hmac_key)
SystemHmac == HMAC_init(HmacSystemKey)

IntegrityError == Err("ValueError: Data integrity check failed - MAC verification failed")

Envelope(final_encrypted, encryption_method, user_id) ==
    [encrypted_data |-> final_encrypted,
     mac |-> HMAC_compute_hex(SystemHmac, final_encrypted),
     encryption_method |-> encryption_method,
     user_id |-> user_id]

\* the return statement of encrypt_data, reached unless a layer raised
SealEnvelope(final_encrypted, encryption_method, user_id) ==
    IF ~final_encrypted.ok THEN final_encrypted
    ELSE Ok(Envelope(final_encrypted.val, encryption_method, user_id))

\* the use_multi_level branch of encrypt_data
EccLayer(encrypted_rsa, ecc_public, k, user_id) ==
    IF ~encrypted_rsa.ok THEN encrypted_rsa
    ELSE IF ~ecc_public.ok THEN Err("ValueError: No ECC public key found")
    ELSE SealEnvelope(ECC_encrypt(encrypted_rsa.val, ecc_public.val, k),
                      "RSA+ECC", user_id)

\* encrypt_data when ECC.encrypt draws the ephemeral scalar k
DataEncryptor_encrypt_data(fs, data, user_id, use_multi_level, k) ==
    LET rsa_public == KM_get_rsa_public_key(fs, user_id)
    IN  IF ~rsa_public.ok THEN Err("ValueError: No public key found")
        ELSE IF use_multi_level
        THEN EccLayer(RSA_encrypt(data, rsa_public.val),
                      KM_get_ecc_public_key(fs, user_id), k, user_id)
        ELSE SealEnvelope(RSA_encrypt(data, rsa_public.val), "RSA", user_id)

\* what a call hands back: the value returned or the exception raised,
\* and the steps it ran, in order
Outcome(result, steps) == [result |-> result, steps |-> steps]

\* the RSA layer of decrypt_data, reached unless the ECC layer raised
RsaLayer(rsa_ciphertext, rsa_private, steps) ==
    IF ~rsa_ciphertext.ok THEN Outcome(rsa_ciphertext, steps)
    ELSE Outcome(RSA_decrypt(rsa_ciphertext.val, rsa_private),
                 Append(steps, "rsa.decrypt"))

\* decrypt_data that takes every encryption_method other than "RSA" for the
\* two-layer one
DataEncryptor_decrypt_data_EccUnlessRsa(fs, encrypted_dict) ==
    LET encrypted_data == encrypted_dict.encrypted_data
        user_id == encrypted_dict.user_id
        rsa_private == KM_get_rsa_private_key(fs, user_id)
        ecc_private == KM_get_ecc_private_key(fs, user_id)
    IN  IF ~HMAC_verify(SystemHmac, encrypted_data, encrypted_dict.mac)
        THEN Outcome(IntegrityError, <<"hmac.verify">>)
        ELSE IF ~rsa_private.ok
        THEN Outcome(Err("ValueError: No private key found"),
                     <<"hmac.verify", "get_rsa_private_key">>)
        ELSE IF encrypted_dict.encryption_method # "RSA"
        THEN IF ~ecc_private.ok
             THEN Outcome(Err("ValueError: No ECC private key found"),
                          <<"hmac.verify", "get_rsa_private_key",
                            "get_ecc_private_key">>)
             ELSE RsaLayer(ECC_decrypt(encrypted_data, ecc_private.val),
                           rsa_private.val,
                           <<"hmac.verify", "get_rsa_private_key",
                             "get_ecc_private_key", "ecc.decrypt">>)
        ELSE RsaLayer(Ok(encrypted_data), rsa_private.val,
                      <<"hmac.verify", "get_rsa_private_key">>)

\* decrypt_data with the RSA private key looked up before the MAC is verified
DataEncryptor_decrypt_data_KeysFirst(fs, encrypted_dict) ==
    LET encrypted_data == encrypted_dict.encrypted_data
        user_id == encrypted_dict.user_id
        rsa_private == KM_get_rsa_private_key(fs, user_id)
        ecc_private == KM_get_ecc_private_key(fs, user_id)
    IN  IF ~rsa_private.ok
        THEN Outcome(Err("ValueError: No private key found"),
                     <<"get_rsa_private_key">>)
        ELSE IF ~HMAC_verify(SystemHmac, encrypted_data, encrypted_dict.mac)
        THEN Outcome(IntegrityError, <<"get_rsa_private_key", "hmac.verify">>)
        ELSE IF encrypted_dict.encryption_method = "RSA+ECC"
        THEN IF ~ecc_private.ok
             THEN Outcome(Err("ValueError: No ECC private key found"),
                          <<"get_rsa_private_key", "hmac.verify",
                            "get_ecc_private_key">>)
             ELSE RsaLayer(ECC_decrypt(encrypted_data, ecc_private.val),
                           rsa_private.val,
                           <<"get_rsa_private_key", "hmac.verify",
                             "get_ecc_private_key", "ecc.decrypt">>)
        ELSE RsaLayer(Ok(encrypted_data), rsa_private.val,
                      <<"get_rsa_private_key", "hmac.verify">>)

DataEncryptor_decrypt_data(fs, encrypted_dict) ==
    LET encrypted_data == encrypted_dict.encrypted_data
        user_id == encrypted_dict.user_id
        rsa_private == KM_get_rsa_private_key(fs, user_id)
        ecc_private == KM_get_ecc_private_key(fs, user_id)
    IN  IF ~HMAC_verify(SystemHmac, encrypted_data, encrypted_dict.mac)
        THEN Outcome(IntegrityError, <<"hmac.verify">>)
        ELSE IF ~rsa_private.ok
        THEN Outcome(Err("ValueError: No private key found"),
                     <<"hmac.verify", "get_rsa_private_key">>)
        ELSE IF encrypted_dict.encryption_method = "RSA+ECC"
        THEN IF ~ecc_private.ok
             THEN Outcome(Err("ValueError: No ECC private key found"),
                          <<"hmac.verify", "get_rsa_private_key",
                            "get_ecc_private_key">>)
             ELSE RsaLayer(ECC_decrypt(encrypted_data, ecc_private.val),
                           rsa_private.val,
                           <<"hmac.verify", "get_rsa_private_key",
                             "get_ecc_private_key", "ecc.decrypt">>)
        ELSE RsaLayer(Ok(encrypted_data), rsa_private.val,
                      <<"hmac.verify", "get_rsa_private_key">>)

(***************************************************************************)
(* The key store over time: generate_user_keys, save_keys, rotate_keys,    *)
(* delete_keys called one after another, and the clock advancing.  A key   *)
(* generation takes at least one tick, so the clock it reads is later than *)
(* every reading before it.                                                *)
(***************************************************************************)
NoCall == [op |-> "none"]

Init ==
    /\ files = <<>>
    /\ clock = 0
    /\ archived = {}
    /\ env = Unset
    /\ res = NoCall
    /\ procs = <<>>
    /\ rsa = NoRsa
    /\ ecc = NoEcc
    /\ mac = NoMac

GenerateUserKeys(draws) ==
    /\ \E user_id \in Users, draw \in draws :
          /\ clock + 1 + draw.gap <= MaxClock
          /\ clock' = clock + 1 + draw.gap
          /\ res' = [op |-> "generate_user_keys", user_id |-> user_id,
                     keys |-> KM_generate_user_keys(user_id, draw, clock + 1,
                                                    clock + 1 + draw.gap)]
    /\ UNCHANGED <<files, archived, env, procs, rsa, ecc, mac>>

\* save_keys(user_id, keys) with the keys generate_user_keys just returned
SaveKeys(faults) ==
    /\ res.op = "generate_user_keys"
    /\ \E fault \in faults :
          LET out == KM_save_keys(files, res.user_id, res.keys, fault)
          IN  /\ files' = out.files
              /\ res' = [op |-> "save_keys", user_id |-> res.user_id,
                         result |-> out.result]
    /\ UNCHANGED <<clock, archived, env, procs, rsa, ecc, mac>>

\* the records rotate_keys finds in place, by kind
CurrentRecords(fs, user_id) ==
    {[user_id |-> user_id, kind |-> path.kind, data |-> fs[path].data] :
        path \in {PublicPath(user_id), PrivatePath(user_id)} \cap DOMAIN fs}

RotateKeys(draws, faults) ==
    /\ \E user_id \in Users, draw \in draws, fault \in faults :
          LET out == KM_rotate_keys(files, user_id, clock, draw, clock + 1,
                                    clock + 1 + draw.gap, fault)
          IN  /\ clock + 1 + draw.gap <= MaxClock
              /\ clock' = clock + 1 + draw.gap
              /\ files' = out.files
              /\ archived' = archived \cup CurrentRecords(files, user_id)
              /\ res' = [op |-> "rotate_keys", user_id |-> user_id,
                         result |-> out.result, called_at |-> clock,
                         public_before |-> KM_load_public_keys(files, user_id),
                         private_before |-> KM_load_private_keys(files, user_id)]
    /\ UNCHANGED <<env, procs, rsa, ecc, mac>>

DeleteKeys ==
    /\ \E user_id \in Users :
          LET out == KM_delete_keys(files, user_id)
          IN  /\ files' = out.files
              /\ res' = [op |-> "delete_keys", user_id |-> user_id,
                         result |-> out.result]
    /\ UNCHANGED <<clock, archived, env, procs, rsa, ecc, mac>>

Tick ==
    /\ clock < MaxClock
    /\ clock' = clock + 1
    /\ UNCHANGED <<files, archived, env, res, procs, rsa, ecc, mac>>

Next ==
    \/ GenerateUserKeys(UserKeyDraws)
    \/ SaveKeys(IoFaults)
    \/ RotateKeys(UserKeyDraws, IoFaults)
    \/ DeleteKeys
    \/ Tick

Spec == Init /\ [][Next]_vars

\* C3: no rotation destroys key material: every record that was current
\* when some rotate_keys call started is still the content of a
\* timestamp-suffixed archive file of its kind.
C3_ArchivesKeepEveryRecord ==
    \A a \in archived :
        \E path \in DOMAIN files :
            /\ path.bak
            /\ path.user_id = a.user_id
            /\ path.kind = a.kind
            /\ files[path].data = a.data

\* the public and the private record come from one generate_user_keys call
SameKeypair(public_keys, private_keys) ==
    /\ public_keys.user_id = private_keys.user_id
    /\ public_keys.generated_at = private_keys.generated_at
    /\ public_keys.rsa_public.n = private_keys.rsa_private.n
    /\ Point_eq(ECC_public_key(private_keys.ecc_private),
                Point(public_keys.ecc_public.x, public_keys.ecc_public.y))

IsArchived(fs, user_id, kind, data) ==
    \E path \in DOMAIN fs :
        /\ path = ArchivePath(user_id, kind, path.timestamp)
        /\ fs[path].data = data

\* C4: after rotate_keys returned True for an identity that had both records,
\* load_public_keys gives a record different from the one before, the public
\* and private records in place are one keypair generated during the call,
\* and the records from before are the content of archive files.
C4_RotationReplacesAndArchives ==
    (/\ res.op = "rotate_keys"
     /\ res.result
     /\ res.public_before.ok
     /\ res.private_before.ok)
    => LET public_keys == KM_load_public_keys(files, res.user_id)
           private_keys == KM_load_private_keys(files, res.user_id)
       IN  /\ public_keys.ok
           /\ private_keys.ok
           /\ public_keys # res.public_before
           /\ SameKeypair(public_keys.val, private_keys.val)
           /\ public_keys.val.generated_at > res.called_at
           /\ IsArchived(files, res.user_id, "public", res.public_before.val)
           /\ IsArchived(files, res.user_id, "private", res.private_before.val)

\* a rotation of an identity with both records has returned True and drew the
\* key material the replaced keypair was made of
C4_Witness ==
    /\ res.op = "rotate_keys"
    /\ res.result
    /\ res.public_before.ok
    /\ res.private_before.ok
    /\ KM_load_public_keys(files, res.user_id).ok
    /\ KM_load_public_keys(files, res.user_id).val.rsa_public
           = res.public_before.val.rsa_public
    /\ Cardinality(DOMAIN files) = 4

(***************************************************************************)
(* Envelopes: encrypt_data and decrypt_data against a key store that is    *)
(* provisioned and rotated by rotate_keys and emptied by delete_keys in     *)
(* between.  decrypt_data is handed the envelope encrypt_data produced, or  *)
(* that envelope after a change.                                           *)
(***************************************************************************)
\* the draws whose modulus is a product of two primes, with no clock gap
TruePrimes == {pr \in GeneratedPrimes : \A f \in 2..(pr - 1) : pr % f # 0}

EnvKeyDraws ==
    [rsa : UNION {UNION {RSA_keypairs_from(p, q) : q \in TruePrimes \ {p}} :
                     p \in TruePrimes},
     ecc : {5, 26},
     gap : {0}]

EnvPlaintexts == {<<>>, <<195, 169>>, <<65, 66, 67>>, <<65, 0>>}

\* the ephemeral scalars ECC.encrypt draws
EnvEphemeralKeys == {7}

OtherByte(b) == IF b = 48 THEN 49 ELSE 48

\* the envelope, and the envelope with one byte of encrypted_data changed,
\* one character of mac changed, mac cut short or emptied, the method
\* switched, or the user_id of an identity without keys
Presented(e) ==
    {e}
      \cup {[e EXCEPT !.encrypted_data[i] = OtherByte(@)] :
                i \in 1..Len(e.encrypted_data)}
      \cup {[e EXCEPT !.mac[i] = OtherByte(@)] : i \in 1..Len(e.mac)}
      \cup {[e EXCEPT !.mac = SubSeq(@, 1, Len(@) - 1)],
            [e EXCEPT !.mac = <<>>],
            [e EXCEPT !.encrypted_data = @ \o <<48>>],
            [e EXCEPT !.encryption_method = IF @ = "RSA" THEN "RSA+ECC" ELSE "RSA"],
            [e EXCEPT !.user_id = "mallory"]}

EncryptData ==
    /\ \E user_id \in Users, data \in EnvPlaintexts, use_multi_level \in BOOLEAN,
          k \in EnvEphemeralKeys :
          LET out == DataEncryptor_encrypt_data(files, data, user_id,
                                                use_multi_level, k)
          IN  /\ res' = [op |-> "encrypt_data", user_id |-> user_id,
                         result |-> out]
              /\ env' = IF out.ok
                        THEN [ok |-> TRUE, val |-> out.val, plaintext |-> data,
                              use_multi_level |-> use_multi_level,
                              sealed_under |-> KM_load_public_keys(files, user_id)]
                        ELSE env
    /\ UNCHANGED <<files, clock, archived, procs, rsa, ecc, mac>>

DecryptData ==
    /\ env.ok
    /\ \E encrypted_dict \in Presented(env.val) :
          LET out == DataEncryptor_decrypt_data(files, encrypted_dict)
          IN  res' = [op |-> "decrypt_data", envelope |-> encrypted_dict,
                      result |-> out.result, steps |-> out.steps]
    /\ UNCHANGED <<files, clock, archived, env, procs, rsa, ecc, mac>>

\* the clock reading after which the identity's keys are rotated no more
EnvMaxClock == 2

\* decrypt_data changes nothing but res, and no call depends on the res a
\* decryption left: every state that can follow a decryption can follow the
\* state before it, so the calls are explored from the other states
AfterDecrypt == res.op = "decrypt_data"

EnvRotateKeys ==
    ~AfterDecrypt /\ clock < EnvMaxClock /\ RotateKeys(EnvKeyDraws, NoFaults)
EnvDeleteKeys == ~AfterDecrypt /\ DeleteKeys
EnvEncryptData == ~AfterDecrypt /\ EncryptData
EnvDecryptData == ~AfterDecrypt /\ DecryptData

NextEnv ==
    \/ EnvRotateKeys
    \/ EnvDeleteKeys
    \/ EnvEncryptData
    \/ EnvDecryptData

SpecEnv == Init /\ [][NextEnv]_vars

MacMatches(e) == e.mac = HMAC_compute_hex(SystemHmac, e.encrypted_data)

\* C1: whenever decrypt_data is handed an envelope whose mac is not the
\* HMAC of its encrypted_data, it raises the integrity error, and the MAC
\* verification is the only step it ran: no key lookup, no decryption.
C1_MacCheckedFirst ==
    (res.op = "decrypt_data" /\ ~MacMatches(res.envelope))
    => /\ res.result = IntegrityError
       /\ res.steps = <<"hmac.verify">>

\* one byte of encrypted_data was changed while the identity's keys are in
\* place, and the call raised
C1_Witness ==
    /\ res.op = "decrypt_data"
    /\ env.ok
    /\ res.envelope.mac = env.val.mac
    /\ Len(res.envelope.encrypted_data) = Len(env.val.encrypted_data)
    /\ res.envelope.encrypted_data # env.val.encrypted_data
    /\ ~MacMatches(res.envelope)
    /\ KM_load_private_keys(files, res.envelope.user_id).ok
    /\ ~res.result.ok

\* C2: whenever decrypt_data is handed the envelope encrypt_data produced,
\* and the identity's saved keypair is still the one it was sealed under,
\* it returns the plaintext, for multi_level true and false.
C2_EnvelopeRoundTrip ==
    (/\ res.op = "decrypt_data"
     /\ env.ok
     /\ res.envelope = env.val
     /\ KM_load_public_keys(files, env.val.user_id) = env.sealed_under
     /\ KM_load_private_keys(files, env.val.user_id).ok
     /\ SameKeypair(env.sealed_under.val,
                    KM_load_private_keys(files, env.val.user_id).val))
    => res.result = Ok(env.plaintext)

(***************************************************************************)
(* Concurrent KeyManager calls.  Each caller runs one of save_keys,        *)
(* rotate_keys, delete_keys on the same storage directory; a step is one   *)
(* file-system call or clock reading of the handler, and the steps of      *)
(* different callers interleave freely: the handlers take no lock.  An     *)
(* exception inside a handler ends it with the result False.               *)
(***************************************************************************)
NumProcs == 2

ProcIds == 1..NumProcs

ConcKeyDraws == EnvKeyDraws

NoKeys == [user_id |-> ""]

Idle == [pc |-> "idle", op |-> "none", user_id |-> "", timestamp |-> 0,
         keys |-> NoKeys, result |-> FALSE]

\* the directory is empty, or holds a keypair saved before the clock started
InitConc ==
    /\ files \in {<<>>} \cup
          {KM_save_keys(<<>>, user_id,
                        KM_generate_user_keys(user_id, draw, 0, 0), "none").files :
              user_id \in Users, draw \in ConcKeyDraws}
    /\ clock = 0
    /\ archived = {}
    /\ env = Unset
    /\ res = NoCall
    /\ procs = [p \in ProcIds |-> Idle]
    /\ rsa = NoRsa
    /\ ecc = NoEcc
    /\ mac = NoMac

Returns(p, result) ==
    procs' = [procs EXCEPT ![p].pc = "done", ![p].result = result]

Goto(p, pc) == procs' = [procs EXCEPT ![p].pc = pc]

\* save_keys(user_id, keys) is entered with keys generated just before
ConcCallSaveKeys(p) ==
    /\ procs[p].pc = "idle"
    /\ clock < MaxClock
    /\ clock' = clock + 1
    /\ \E user_id \in Users, draw \in ConcKeyDraws :
          procs' = [procs EXCEPT ![p] =
                       [Idle EXCEPT !.pc = "write_public", !.op = "save_keys",
                                    !.user_id = user_id,
                                    !.keys = KM_generate_user_keys(user_id, draw,
                                                 clock + 1, clock + 1)]]
    /\ UNCHANGED <<files, archived, env, res, rsa, ecc, mac>>

\* rotate_keys is entered and reads the clock for the archive timestamp
ConcCallRotateKeys(p) ==
    /\ procs[p].pc = "idle"
    /\ \E user_id \in Users :
          procs' = [procs EXCEPT ![p] =
                       [Idle EXCEPT !.pc = "exists_public", !.op = "rotate_keys",
                                    !.user_id = user_id,
                                    !.timestamp = Strftime(clock)]]
    /\ UNCHANGED <<files, clock, archived, env, res, rsa, ecc, mac>>

ConcCallDeleteKeys(p) ==
    /\ procs[p].pc = "idle"
    /\ \E user_id \in Users :
          procs' = [procs EXCEPT ![p] =
                       [Idle EXCEPT !.pc = "exists_public", !.op = "delete_keys",
                                    !.user_id = user_id]]
    /\ UNCHANGED <<files, clock, archived, env, res, rsa, ecc, mac>>

ConcPath(p, kind) ==
    IF kind = "public" THEN PublicPath(procs[p].user_id)
    ELSE PrivatePath(procs[p].user_id)

\* path.exists() in rotate_keys and delete_keys, for either file
ConcExists(p) ==
    /\ \E kind \in {"public", "private"} :
          /\ procs[p].pc = "exists_" \o kind
          /\ IF Exists(files, ConcPath(p, kind))
             THEN Goto(p, IF procs[p].op = "rotate_keys" THEN "rename_" \o kind
                          ELSE "unlink_" \o kind)
             ELSE IF kind = "public" THEN Goto(p, "exists_private")
             ELSE IF procs[p].op = "rotate_keys" THEN Goto(p, "generate")
             ELSE Returns(p, TRUE)
    /\ UNCHANGED <<files, clock, archived, env, res, rsa, ecc, mac>>

\* path.rename(archive) in rotate_keys; FileNotFoundError if the file is gone
ConcRename(p) ==
    /\ \E kind \in {"public", "private"} :
          /\ procs[p].pc = "rename_" \o kind
          /\ IF Exists(files, ConcPath(p, kind))
             THEN /\ files' = Rename(files, ConcPath(p, kind),
                                     ArchivePath(procs[p].user_id, kind,
                                                 procs[p].timestamp))
                  /\ Goto(p, IF kind = "public" THEN "exists_private" ELSE "generate")
             ELSE /\ files' = files
                  /\ Returns(p, FALSE)
    /\ UNCHANGED <<clock, archived, env, res, rsa, ecc, mac>>

\* path.unlink() in delete_keys; FileNotFoundError if the file is gone
ConcUnlink(p) ==
    /\ \E kind \in {"public", "private"} :
          /\ procs[p].pc = "unlink_" \o kind
          /\ IF Exists(files, ConcPath(p, kind))
             THEN /\ files' = Unlink(files, ConcPath(p, kind))
                  /\ IF kind = "public" THEN Goto(p, "exists_private")
                     ELSE Returns(p, TRUE)
             ELSE /\ files' = files
                  /\ Returns(p, FALSE)
    /\ UNCHANGED <<clock, archived, env, res, rsa, ecc, mac>>

\* generate_user_keys inside rotate_keys
ConcGenerate(p) ==
    /\ procs[p].pc = "generate"
    /\ clock < MaxClock
    /\ clock' = clock + 1
    /\ \E draw \in ConcKeyDraws :
          procs' = [procs EXCEPT ![p].pc = "write_public",
                                 ![p].keys = KM_generate_user_keys(procs[p].user_id,
                                                 draw, clock + 1, clock + 1)]
    /\ UNCHANGED <<files, archived, env, res, rsa, ecc, mac>>

\* open(path, 'w') and json.dump in save_keys, for either file
ConcWrite(p) ==
    /\ \/ /\ procs[p].pc = "write_public"
          /\ files' = WriteFile(files, PublicPath(procs[p].user_id),
                                PublicRecord(procs[p].user_id, procs[p].keys))
          /\ Goto(p, "write_private")
       \/ /\ procs[p].pc = "write_private"
          /\ files' = WriteFile(files, PrivatePath(procs[p].user_id),
                                PrivateRecord(procs[p].user_id, procs[p].keys))
          /\ Goto(p, "chmod")
    /\ UNCHANGED <<clock, archived, env, res, rsa, ecc, mac>>

\* os.chmod(private_path, 0o600); FileNotFoundError if the file is gone
ConcChmod(p) ==
    /\ procs[p].pc = "chmod"
    /\ IF Exists(files, PrivatePath(procs[p].user_id))
       THEN /\ files' = Chmod(files, PrivatePath(procs[p].user_id), ModePrivate)
            /\ Returns(p, TRUE)
       ELSE /\ files' = files
            /\ Returns(p, FALSE)
    /\ UNCHANGED <<clock, archived, env, res, rsa, ecc, mac>>

NextConc ==
    \E p \in ProcIds :
        \/ ConcCallSaveKeys(p)
        \/ ConcCallRotateKeys(p)
        \/ ConcCallDeleteKeys(p)
        \/ ConcExists(p)
        \/ ConcRename(p)
        \/ ConcUnlink(p)
        \/ ConcGenerate(p)
        \/ ConcWrite(p)
        \/ ConcChmod(p)

SpecConc == InitConc /\ [][NextConc]_vars

AllReturned == \A p \in ProcIds : procs[p].pc = "done"

\* C5: once every concurrent rotate_keys, save_keys and delete_keys call on
\* an identity has returned, its public and private records in place are
\* both absent, or both present and of one generated keypair.
C5_StoreConsistentAfterCalls ==
    AllReturned =>
        \A user_id \in Users :
            LET public_keys == KM_load_public_keys(files, user_id)
                private_keys == KM_load_private_keys(files, user_id)
            IN  \/ ~public_keys.ok /\ ~private_keys.ok
                \/ /\ public_keys.ok
                   /\ private_keys.ok
                   /\ SameKeypair(public_keys.val, private_keys.val)

(***************************************************************************)
(* The key lifecycle of several identities: generate_user_keys, save_keys, *)
(* rotate_keys, check_key_expiration, delete_keys and                      *)
(* list_users_with_keys.  An identity is a str, a sequence of bytes; the   *)
(* name of one identity is the name of another followed by "_public".      *)
(* The clock advances by ticks and, once, by a whole validity window.      *)
(***************************************************************************)
\* "_public"
PublicSuffix == <<95, 112, 117, 98, 108, 105, 99>>

\* "bob" and "bob_public"
LifeUsers == {<<98, 111, 98>>, <<98, 111, 98>> \o PublicSuffix}

\* s.replace(old, ''): the occurrences of old are removed, leftmost first
\* and without overlap
RECURSIVE StrRemove(_, _)
StrRemove(s, old) ==
    IF Len(s) < Len(old) THEN s
    ELSE IF SubSeq(s, 1, Len(old)) = old
    THEN StrRemove(SubSeq(s, Len(old) + 1, Len(s)), old)
    ELSE <<s[1]>> \o StrRemove(Tail(s), old)

\* check_key_expiration with the comparison utcnow() >= expires_at
KM_check_key_expiration_NotStrict(fs, user_id, now) ==
    LET keys == KM_load_public_keys(fs, user_id)
    IN  IF ~keys.ok THEN TRUE ELSE now >= keys.val.expires_at

\* check_key_expiration when datetime.utcnow() returns now; isoformat()
\* and fromisoformat() keep a clock reading to the tick
KM_check_key_expiration(fs, user_id, now) ==
    LET keys == KM_load_public_keys(fs, user_id)
    IN  IF ~keys.ok THEN TRUE ELSE now > keys.val.expires_at

\* list_users_with_keys, as the set of the ids in the list it returns:
\* glob("*_public.json") matches the files named f"{user_id}_public.json",
\* whose stem is f"{user_id}_public"
KM_list_users_with_keys(fs) ==
    {StrRemove(path.user_id \o PublicSuffix, PublicSuffix) :
        path \in {f \in DOMAIN fs : ~f.bak /\ f.kind = "public"}}

\* one RSA keypair of two primes, one ECC key, both clock gaps
LifeKeyDraws == [rsa : {d.rsa : d \in EnvKeyDraws}, ecc : {5}, gap : {0, 1}]

\* the longest time between the two clock readings of generate_user_keys
MaxGap == 1

\* how many validity windows the clock may skip
MaxElapsed == 1

\* the clock runs to LifeMaxClock ticks into a validity window
LifeMaxClock == 2

\* ticks since the last skipped validity window
Offset(now) == now % KeyLifetime

LifeGenerateUserKeys ==
    /\ \E user_id \in LifeUsers, draw \in LifeKeyDraws :
          /\ Offset(clock) + 1 + draw.gap <= LifeMaxClock
          /\ clock' = clock + 1 + draw.gap
          /\ res' = [op |-> "generate_user_keys", user_id |-> user_id,
                     keys |-> KM_generate_user_keys(user_id, draw, clock + 1,
                                                    clock + 1 + draw.gap)]
    /\ UNCHANGED <<files, archived, env, procs, rsa, ecc, mac>>

\* save_keys(user_id, keys) with the keys generate_user_keys just returned
LifeSaveKeys ==
    /\ res.op = "generate_user_keys"
    /\ \E fault \in IoFaults :
          LET out == KM_save_keys(files, res.user_id, res.keys, fault)
          IN  /\ files' = out.files
              /\ res' = [op |-> "save_keys", user_id |-> res.user_id,
                         keys |-> res.keys, result |-> out.result]
    /\ UNCHANGED <<clock, archived, env, procs, rsa, ecc, mac>>

LifeRotateKeys ==
    /\ \E user_id \in LifeUsers, draw \in LifeKeyDraws, fault \in IoFaults :
          LET out == KM_rotate_keys(files, user_id, clock, draw, clock + 1,
                                    clock + 1 + draw.gap, fault)
          IN  /\ Offset(clock) + 1 + draw.gap <= LifeMaxClock
              /\ clock' = clock + 1 + draw.gap
              /\ files' = out.files
              /\ res' = [op |-> "rotate_keys", user_id |-> user_id,
                         result |-> out.result, called_at |-> clock]
    /\ UNCHANGED <<archived, env, procs, rsa, ecc, mac>>

LifeDeleteKeys ==
    /\ \E user_id \in LifeUsers :
          LET out == KM_delete_keys(files, user_id)
          IN  /\ files' = out.files
              /\ res' = [op |-> "delete_keys", user_id |-> user_id,
                         result |-> out.result, files_before |-> files]
    /\ UNCHANGED <<clock, archived, env, procs, rsa, ecc, mac>>

LifeCheckKeyExpiration ==
    /\ \E user_id \in LifeUsers :
          res' = [op |-> "check_key_expiration", user_id |-> user_id,
                  result |-> KM_check_key_expiration(files, user_id, clock),
                  now |-> clock]
    /\ UNCHANGED <<files, clock, archived, env, procs, rsa, ecc, mac>>

LifeListUsersWithKeys ==
    /\ res' = [op |-> "list_users_with_keys",
               result |-> KM_list_users_with_keys(files)]
    /\ UNCHANGED <<files, clock, archived, env, procs, rsa, ecc, mac>>

LifeTick ==
    /\ Offset(clock) < LifeMaxClock
    /\ clock' = clock + 1
    /\ UNCHANGED <<files, archived, env, res, procs, rsa, ecc, mac>>

\* a whole validity window passes
LifeElapse ==
    /\ clock \div KeyLifetime < MaxElapsed
    /\ clock' = clock + KeyLifetime
    /\ UNCHANGED <<files, archived, env, res, procs, rsa, ecc, mac>>

NextLife ==
    \/ LifeGenerateUserKeys
    \/ LifeSaveKeys
    \/ LifeRotateKeys
    \/ LifeDeleteKeys
    \/ LifeCheckKeyExpiration
    \/ LifeListUsersWithKeys
    \/ LifeTick
    \/ LifeElapse

SpecLife == Init /\ [][NextLife]_vars

\* C11: after delete_keys(id) returned True, load_public_keys,
\* load_private_keys and the four key accessors return None for id, id is
\* not in list_users_with_keys(), and the files of every other identity are
\* what they were before the call; delete_keys returns True for every
\* identity, with or without keys.
C11_DeleteRemovesIdentity ==
    res.op = "delete_keys" =>
        /\ res.result
        /\ KM_load_public_keys(files, res.user_id) = Absent
        /\ KM_load_private_keys(files, res.user_id) = Absent
        /\ KM_get_rsa_public_key(files, res.user_id) = Absent
        /\ KM_get_rsa_private_key(files, res.user_id) = Absent
        /\ KM_get_ecc_public_key(files, res.user_id) = Absent
        /\ KM_get_ecc_private_key(files, res.user_id) = Absent
        /\ res.user_id \notin KM_list_users_with_keys(files)
        /\ DOMAIN files \subseteq DOMAIN res.files_before
        /\ \A path \in DOMAIN res.files_before :
              path.user_id # res.user_id =>
                  /\ path \in DOMAIN files
                  /\ files[path] = res.files_before[path]

PublicFields == {"user_id", "rsa_public", "ecc_public", "generated_at", "expires_at"}

C13_ExpirationWindow ==
    /\ \A path \in DOMAIN files :
          path.kind = "public" =>
              (files[path].data.expires_at - KeyLifetime)
                  \in files[path].data.generated_at
                        ..(files[path].data.generated_at + MaxGap)
    /\ res.op = "check_key_expiration" =>
          LET keys == KM_load_public_keys(files, res.user_id)
          IN  IF ~keys.ok THEN res.result
              ELSE /\ res.result = (res.now > keys.val.expires_at)
                   /\ res.now <= keys.val.generated_at + KeyLifetime => ~res.result
    /\ (res.op = "rotate_keys" /\ res.result) =>
          LET keys == KM_load_public_keys(files, res.user_id)
          IN  /\ keys.ok
              /\ keys.val.generated_at > res.called_at
              /\ keys.val.expires_at > res.called_at + KeyLifetime
              /\ clock <= keys.val.generated_at + KeyLifetime =>
                    ~KM_check_key_expiration(files, res.user_id, clock)

\* the check found a record whose validity window has passed
C13_Witness ==
    /\ res.op = "check_key_expiration"
    /\ KM_load_public_keys(files, res.user_id).ok
    /\ res.result
    /\ res.now > KM_load_public_keys(files, res.user_id).val.generated_at + KeyLifetime

(***************************************************************************)
(* SHA-256 and HMAC-SHA-256 to the bit (crypto/mac.py).  A 32-bit word is  *)
(* the pair <<high 16 bits, low 16 bits>>; the pair of a Python int v in   *)
(* [0, 2^32) is <<v >> 16, v & 0xFFFF>>.                                    *)
(***************************************************************************)
\* SHA256.H0
SHA256_H0 ==
    <<<<27145, 58983>>, <<47975, 44677>>, <<15470, 62322>>, <<42319, 62778>>,
      <<20750, 21119>>, <<39685, 26764>>, <<8067, 55723>>, <<23520, 52505>>>>

\* SHA256.K
SHA256_K ==
    <<<<17034, 12184>>, <<28983, 17553>>, <<46528, 64463>>, <<59829, 56229>>,
      <<14678, 49755>>, <<23025, 4593>>, <<37439, 33444>>, <<43804, 24277>>,
      <<55303, 43672>>, <<4739, 23297>>, <<9265, 34238>>, <<21772, 32195>>,
      <<29374, 23924>>, <<32990, 45566>>, <<39900, 1703>>, <<49563, 61812>>,
      <<58523, 27073>>, <<61374, 18310>>, <<4033, 40390>>, <<9228, 41420>>,
      <<11753, 11375>>, <<19060, 33962>>, <<23728, 43484>>, <<30457, 35034>>,
      <<38974, 20818>>, <<43057, 50797>>, <<45059, 10184>>, <<48985, 32711>>,
      <<50912, 3059>>, <<54695, 37191>>, <<1738, 25425>>, <<5161, 10599>>,
      <<10167, 2693>>, <<11803, 8504>>, <<19756, 28156>>, <<21304, 3347>>,
      <<25866, 29524>>, <<30314, 2747>>, <<33218, 51502>>, <<37490, 11397>>,
      <<41663, 59553>>, <<43034, 26187>>, <<49739, 35696>>, <<51052, 20899>>,
      <<53650, 59417>>, <<54937, 1572>>, <<62478, 13701>>, <<4202, 41072>>,
      <<6564, 49430>>, <<7735, 27656>>, <<10056, 30540>>, <<13488, 48309>>,
      <<14620, 3251>>, <<20184, 43594>>, <<23452, 51791>>, <<26670, 28659>>,
      <<29839, 33518>>, <<30885, 25455>>, <<33992, 30740>>, <<36039, 520>>,
      <<37054, 65530>>, <<42064, 27883>>, <<48889, 41975>>, <<50801, 30962>>>>

Half == 65536

\* 2^0 .. 2^16
PowersOf2 == [k \in 1..17 |-> Pow2(k - 1)]

\* a ^ b and a & b for 4-bit values, tabulated
XorTable == [a \in 0..15 |-> [b \in 0..15 |-> XorBits(a, b, 4)]]
AndTable ==
    [a \in 0..15 |-> [b \in 0..15 |->
        (a % 2) * (b % 2) + 2 * ((a \div 2) % 2) * ((b \div 2) % 2)
            + 4 * ((a \div 4) % 2) * ((b \div 4) % 2) + 8 * (a \div 8) * (b \div 8)]]

\* a bitwise operation on two 16-bit values, four bits at a time
Bitwise16(table, a, b) ==
    table[a % 16][b % 16]
        + 16 * table[(a \div 16) % 16][(b \div 16) % 16]
        + 256 * table[(a \div 256) % 16][(b \div 256) % 16]
        + 4096 * table[a \div 4096][b \div 4096]

WordXor(x, y) == <<Bitwise16(XorTable, x[1], y[1]), Bitwise16(XorTable, x[2], y[2])>>
WordAnd(x, y) == <<Bitwise16(AndTable, x[1], y[1]), Bitwise16(AndTable, x[2], y[2])>>

\* the low 32 bits of ~x, which is all that (~e) & g keeps of it
WordNot(x) == <<Half - 1 - x[1], Half - 1 - x[2]>>

RECURSIVE SumOfHalves(_, _)
SumOfHalves(ws, h) ==
    IF Len(ws) = 0 THEN 0 ELSE ws[1][h] + SumOfHalves(Tail(ws), h)

\* (ws[1] + ... + ws[k]) & 0xFFFFFFFF
WordSum(ws) ==
    LET lo == SumOfHalves(ws, 2)
        hi == SumOfHalves(ws, 1) + lo \div Half
    IN  <<hi % Half, lo % Half>>

\* ((value >> amount) | (value << (32 - amount))) & 0xFFFFFFFF, 0 < amount < 32
SHA256_right_rotate(value, amount) ==
    LET v == IF amount >= 16 THEN <<value[2], value[1]>> ELSE value
        n == amount % 16
        cut == PowersOf2[n + 1]
        up == PowersOf2[17 - n]
    IN  <<v[1] \div cut + (v[2] % cut) * up, v[2] \div cut + (v[1] % cut) * up>>

\* SHA256_right_shift that rotates the bits shifted out back in at the top
SHA256_right_shift_Rotates(value, amount) ==
    SHA256_right_rotate(value, amount)

\* value >> amount
SHA256_right_shift(value, amount) ==
    IF amount >= 16 THEN <<0, value[1] \div PowersOf2[amount - 15]>>
    ELSE <<value[1] \div PowersOf2[amount + 1],
           value[2] \div PowersOf2[amount + 1]
               + (value[1] % PowersOf2[amount + 1]) * PowersOf2[17 - amount]>>

\* the zero bytes appended until len(message) % 64 == 56
ZeroPadLength(length) == (55 - length) % 64

\* original_length.to_bytes(8, byteorder='big')
LengthBytes(bits) ==
    [i \in 1..8 |-> IF i < 5 THEN 0 ELSE (bits \div Pow256(8 - i)) % 256]

\* _pad_message that appends the length in bytes
SHA256_pad_message_LengthInBytes(message) ==
    message \o <<128>> \o [i \in 1..ZeroPadLength(Len(message)) |-> 0]
        \o LengthBytes(Len(message))

SHA256_pad_message(message) ==
    message \o <<128>> \o [i \in 1..ZeroPadLength(Len(message)) |-> 0]
        \o LengthBytes(Len(message) * 8)

\* int.from_bytes(block[i*4:(i+1)*4], byteorder='big'), as a word
BlockWord(block, i) ==
    <<256 * block[4 * i + 1] + block[4 * i + 2], 256 * block[4 * i + 3] + block[4 * i + 4]>>

SmallSigma0(x) ==
    WordXor(WordXor(SHA256_right_rotate(x, 7), SHA256_right_rotate(x, 18)),
            SHA256_right_shift(x, 3))

SmallSigma1(x) ==
    WordXor(WordXor(SHA256_right_rotate(x, 17), SHA256_right_rotate(x, 19)),
            SHA256_right_shift(x, 10))

\* the loop "for i in range(16, 64)": w holds the words w[0..Len(w)-1]
RECURSIVE ExtendSchedule(_)
ExtendSchedule(w) ==
    IF Len(w) >= 64 THEN w
    ELSE ExtendSchedule(Append(w,
             WordSum(<<w[Len(w) - 15], SmallSigma0(w[Len(w) - 14]),
                       w[Len(w) - 6], SmallSigma1(w[Len(w) - 1])>>)))

BigSigma0(x) ==
    WordXor(WordXor(SHA256_right_rotate(x, 2), SHA256_right_rotate(x, 13)),
            SHA256_right_rotate(x, 22))

BigSigma1(x) ==
    WordXor(WordXor(SHA256_right_rotate(x, 6), SHA256_right_rotate(x, 11)),
            SHA256_right_rotate(x, 25))

Ch(e, f, g) == WordXor(WordAnd(e, f), WordAnd(WordNot(e), g))

Maj(a, b, c) == WordXor(WordXor(WordAnd(a, b), WordAnd(a, c)), WordAnd(b, c))

\* the update of the working variables <<a, b, c, d, e, f, g, hh>>
Shift(v, temp1, temp2) ==
    <<WordSum(<<temp1, temp2>>), v[1], v[2], v[3],
      WordSum(<<v[4], temp1>>), v[5], v[6], v[7]>>

\* one pass of the main compression loop, for round i (from 1)
Round(v, w, i) ==
    Shift(v,
          WordSum(<<v[8], BigSigma1(v[5]), Ch(v[5], v[6], v[7]), SHA256_K[i], w[i]>>),
          WordSum(<<BigSigma0(v[1]), Maj(v[1], v[2], v[3])>>))

RECURSIVE Rounds(_, _, _)
Rounds(v, w, i) ==
    IF i > 64 \/ Len(v) # 8 THEN v ELSE Rounds(Round(v, w, i), w, i + 1)

\* the return statement of _process_block
AddState(h, v) == [i \in 1..8 |-> WordSum(<<h[i], v[i]>>)]

SHA256_process_block(block, h) ==
    AddState(h, Rounds(h, ExtendSchedule([i \in 1..16 |-> BlockWord(block, i - 1)]), 1))

\* the loop "for i in range(0, len(padded), 64)" from byte offset i on
RECURSIVE ProcessBlocks(_, _, _)
ProcessBlocks(padded, h, i) ==
    IF i >= Len(padded) \/ Len(h) # 8 THEN h
    ELSE ProcessBlocks(padded, SHA256_process_block(SubSeq(padded, i + 1, i + 64), h),
                       i + 64)

\* value.to_bytes(4, byteorder='big')
WordBytes(x) == <<x[1] \div 256, x[1] % 256, x[2] \div 256, x[2] % 256>>

\* the loop "for value in h": digest += value.to_bytes(4, byteorder='big')
DigestBytes(h) == Concat([i \in 1..8 |-> WordBytes(h[i])])

\* SHA256.hash of the bytes of message
SHA256_hash_exact(message) ==
    DigestBytes(ProcessBlocks(SHA256_pad_message(message), SHA256_H0, 0))

SHA256_hash_hex_exact(message) == BytesHex(SHA256_hash_exact(message))

(***************************************************************************)
(* SHA-256 scenario: hash(message) pads the message, processes it block by *)
(* block and renders the digest.                                           *)
(***************************************************************************)
\* the longest patterned message, one that needs two blocks
MaxShaLen == 66

\* "abc"
AbcMessage == <<97, 98, 99>>

\* "abcdbcdecdefdefgefghfghighijhijkijkljklmklmnlmnomnopnopq"
NistMessage ==
    <<97, 98, 99, 100, 98, 99, 100, 101, 99, 100, 101, 102, 100, 101, 102, 103,
      101, 102, 103, 104, 102, 103, 104, 105, 103, 104, 105, 106, 104, 105, 106, 107,
      105, 106, 107, 108, 106, 107, 108, 109, 107, 108, 109, 110, 108, 109, 110, 111,
      109, 110, 111, 112, 110, 111, 112, 113>>

\* the digests published in FIPS 180-4 for "", "abc" and the 56-byte
\* message, as hex text:
\* e3b0c44298fc1c149afbf4c8996fb92427ae41e4649b934ca495991b7852b855
FipsEmptyDigest ==
    <<101, 51, 98, 48, 99, 52, 52, 50, 57, 56, 102, 99, 49, 99, 49, 52,
      57, 97, 102, 98, 102, 52, 99, 56, 57, 57, 54, 102, 98, 57, 50, 52,
      50, 55, 97, 101, 52, 49, 101, 52, 54, 52, 57, 98, 57, 51, 52, 99,
      97, 52, 57, 53, 57, 57, 49, 98, 55, 56, 53, 50, 98, 56, 53, 53>>

\* ba7816bf8f01cfea414140de5dae2223b00361a396177a9cb410ff61f20015ad
FipsAbcDigest ==
    <<98, 97, 55, 56, 49, 54, 98, 102, 56, 102, 48, 49, 99, 102, 101, 97,
      52, 49, 52, 49, 52, 48, 100, 101, 53, 100, 97, 101, 50, 50, 50, 51,
      98, 48, 48, 51, 54, 49, 97, 51, 57, 54, 49, 55, 55, 97, 57, 99,
      98, 52, 49, 48, 102, 102, 54, 49, 102, 50, 48, 48, 49, 53, 97, 100>>

\* 248d6a61d20638b8e5c026930c3e6039a33ce45964ff2167f6ecedd419db06c1
FipsNistDigest ==
    <<50, 52, 56, 100, 54, 97, 54, 49, 100, 50, 48, 54, 51, 56, 98, 56,
      101, 53, 99, 48, 50, 54, 57, 51, 48, 99, 51, 101, 54, 48, 51, 57,
      97, 51, 51, 99, 101, 52, 53, 57, 54, 52, 102, 102, 50, 49, 54, 55,
      102, 54, 101, 99, 101, 100, 100, 52, 49, 57, 100, 98, 48, 54, 99, 49>>

\* a message of k bytes with bytes of every size
Pattern(k) == [i \in 1..k |-> (i * 37 + k * 11) % 256]

ShaMessages ==
    {AbcMessage, NistMessage} \cup {Pattern(k) : k \in 0..MaxShaLen}

InitMAC ==
    /\ mac = NoMac
    /\ rsa = NoRsa
    /\ ecc = NoEcc
    /\ files = <<>> /\ clock = 0 /\ archived = {} /\ env = Unset
    /\ res = Unset /\ procs = <<>>

\* hash(message) up to its loop: the message is padded and h = H0.copy()
ShaPad ==
    /\ mac.stage = "new"
    /\ \E message \in ShaMessages :
          mac' = [mac EXCEPT !.stage = "padded", !.message = message,
                             !.padded = SHA256_pad_message(message),
                             !.h = SHA256_H0]
    /\ UNCHANGED <<storeVars, rsa, ecc>>

\* one pass of the loop of hash()
ShaProcessBlock ==
    /\ mac.stage = "padded"
    /\ mac.offset < Len(mac.padded)
    /\ mac' = [mac EXCEPT !.h = SHA256_process_block(
                                    SubSeq(mac.padded, mac.offset + 1, mac.offset + 64),
                                    mac.h),
                          !.offset = mac.offset + 64]
    /\ UNCHANGED <<storeVars, rsa, ecc>>

\* the digest is assembled and hash_hex renders it
ShaDigest ==
    /\ mac.stage = "padded"
    /\ mac.offset >= Len(mac.padded)
    /\ mac' = [mac EXCEPT !.stage = "hashed", !.digest = DigestBytes(mac.h),
                          !.hexdigest = BytesHex(DigestBytes(mac.h))]
    /\ UNCHANGED <<storeVars, rsa, ecc>>

NextSHA == ShaPad \/ ShaProcessBlock \/ ShaDigest

SpecSHA == InitMAC /\ [][NextSHA]_vars

\* the value of a word lies in [0, 2^32)
IsWord32(x) == x[1] \in 0..(Half - 1) /\ x[2] \in 0..(Half - 1)

IsLowerHex(c) == (c \in 48..57) \/ (c \in 97..102)

\* C17: hash_hex returns the digests published in FIPS 180-4 for the empty
\* string, "abc" and the 56-byte message, which takes two blocks; after every
\* block each of the eight state words is in [0, 2^32), and the result is 32
\* bytes rendered as 64 lowercase hex characters.
C17_Sha256MatchesFips ==
    /\ mac.stage \in {"padded", "hashed"} =>
          /\ Len(mac.padded) % 64 = 0
          /\ Len(mac.h) = 8
          /\ \A i \in 1..8 : IsWord32(mac.h[i])
    /\ mac.stage = "hashed" =>
          /\ Len(mac.digest) = 32
          /\ Len(mac.hexdigest) = 64
          /\ \A i \in 1..64 : IsLowerHex(mac.hexdigest[i])
          /\ mac.hexdigest = SHA256_hash_hex_exact(mac.message)
          /\ mac.message = <<>> => mac.hexdigest = FipsEmptyDigest
          /\ mac.message = AbcMessage => mac.hexdigest = FipsAbcDigest
          /\ mac.message = NistMessage =>
                (mac.offset = 128 /\ mac.hexdigest = FipsNistDigest)

\* the 56-byte message was hashed in two blocks
C17_Witness ==
    /\ mac.stage = "hashed"
    /\ mac.message = NistMessage
    /\ mac.offset = 128
    /\ mac.hexdigest = FipsNistDigest

(***************************************************************************)
(* HMAC over the bit-exact SHA-256: the construction of HMAC_init,         *)
(* HMAC_compute and HMAC_verify with SHA256_hash_exact as the hash.        *)
(***************************************************************************)
\* HMAC.__init__ that hashes every key of at least the block size
HMAC_init_exact_HashesAtBlockSize(key) ==
    LET k0 == IF Len(key) >= HmacBlockSize THEN SHA256_hash_exact(key) ELSE key
        padded == [i \in 1..HmacBlockSize |-> IF i <= Len(k0) THEN k0[i] ELSE 0]
    IN  [key |-> padded,
         inner_key |-> [i \in 1..HmacBlockSize |-> Xor8(padded[i], 54)],
         outer_key |-> [i \in 1..HmacBlockSize |-> Xor8(padded[i], 92)]]

\* HMAC.__init__
HMAC_init_exact(key) ==
    LET k0 == IF Len(key) > HmacBlockSize THEN SHA256_hash_exact(key) ELSE key
        padded == [i \in 1..HmacBlockSize |-> IF i <= Len(k0) THEN k0[i] ELSE 0]
    IN  [key |-> padded,
         inner_key |-> [i \in 1..HmacBlockSize |-> Xor8(padded[i], 54)],
         outer_key |-> [i \in 1..HmacBlockSize |-> Xor8(padded[i], 92)]]

HMAC_compute_exact(hmac, message) ==
    SHA256_hash_exact(hmac.outer_key \o SHA256_hash_exact(hmac.inner_key \o message))

HMAC_compute_hex_exact(hmac, message) == BytesHex(HMAC_compute_exact(hmac, message))

\* a | b and a ^ b for character codes below 2^16
OrCodes(a, b) == a + b - Bitwise16(AndTable, a, b)
XorCodes(a, b) == Bitwise16(XorTable, a, b)

\* the loop "for a, b in zip(computed_mac, expected_mac): result |= ord(a) ^ ord(b)"
\* from position i on; zip stops at the end of the shorter string
RECURSIVE CompareLoop(_, _, _, _)
CompareLoop(computed_mac, expected_mac, i, result) ==
    IF i > Len(computed_mac) \/ i > Len(expected_mac) THEN result
    ELSE CompareLoop(computed_mac, expected_mac, i + 1,
                     OrCodes(result, XorCodes(computed_mac[i], expected_mac[i])))

\* verify without the length check
CompareMacs_NoLengthCheck(computed_mac, expected_mac) ==
    CompareLoop(computed_mac, expected_mac, 1, 0) = 0

\* the rest of verify once compute_hex has returned computed_mac
CompareMacs(computed_mac, expected_mac) ==
    IF Len(computed_mac) # Len(expected_mac) THEN FALSE
    ELSE CompareLoop(computed_mac, expected_mac, 1, 0) = 0

\* HMAC.verify; expected_mac is a str of ASCII characters
HMAC_verify_exact(hmac, message, expected_mac) ==
    CompareMacs(HMAC_compute_hex_exact(hmac, message), expected_mac)

(***************************************************************************)
(* HMAC scenario: HMAC(key), compute_hex(message), then verify of the      *)
(* message with a presented tag, or of a changed message with the tag.     *)
(***************************************************************************)
\* key3 and data3 of test_hmac (RFC 4231, test case 3), and its tag
\* 773ea91e36800e46854db8ebd09181a72959098b3ef8c122d9635514ced565fe
Rfc4231Key3 == [i \in 1..20 |-> 170]
Rfc4231Data3 == [i \in 1..50 |-> 221]
Rfc4231Tag3 ==
    <<55, 55, 51, 101, 97, 57, 49, 101, 51, 54, 56, 48, 48, 101, 52, 54,
      56, 53, 52, 100, 98, 56, 101, 98, 100, 48, 57, 49, 56, 49, 97, 55,
      50, 57, 53, 57, 48, 57, 56, 98, 51, 101, 102, 56, 99, 49, 50, 50,
      100, 57, 54, 51, 53, 53, 49, 52, 99, 101, 100, 53, 54, 53, 102, 101>>

\* a key longer than the block size, which __init__ hashes
LongKey == [i \in 1..(HmacBlockSize + 1) |-> 170]

MacKeys == {Rfc4231Key3, LongKey}

MacMessages == {Rfc4231Data3}

\* s with bit b (0 = lowest) of its i-th element flipped
FlipBit(s, i, b) ==
    [s EXCEPT ![i] = IF (@ \div PowersOf2[b + 1]) % 2 = 1
                     THEN @ - PowersOf2[b + 1] ELSE @ + PowersOf2[b + 1]]

\* str.upper() of hex text
UpperHex(s) == [i \in 1..Len(s) |-> IF s[i] \in 97..102 THEN s[i] - 32 ELSE s[i]]

\* the tag; the tag with one bit of one character flipped; the tag cut
\* short, extended, emptied, and in upper case
PresentedTags(tag) ==
    {tag} \cup {FlipBit(tag, i, 0) : i \in 1..Len(tag)}
          \cup {SubSeq(tag, 1, Len(tag) - 1), tag \o <<48>>, <<>>, UpperHex(tag)}

\* the message with one bit of its first or last byte flipped
ChangedMessages(message) ==
    {FlipBit(message, i, b) : i \in {1, Len(message)}, b \in 0..7}

HmacInit ==
    /\ mac.stage = "new"
    /\ \E key \in MacKeys :
          mac' = [mac EXCEPT !.stage = "keyed", !.key = key,
                             !.hmac = HMAC_init_exact(key)]
    /\ UNCHANGED <<storeVars, rsa, ecc>>

HmacComputeHex ==
    /\ mac.stage = "keyed"
    /\ \E message \in MacMessages :
          mac' = [mac EXCEPT !.stage = "tagged", !.message = message,
                             !.tag = HMAC_compute_hex_exact(mac.hmac, message)]
    /\ UNCHANGED <<storeVars, rsa, ecc>>

HmacVerify ==
    /\ mac.stage = "tagged"
    /\ \/ \E expected_mac \in PresentedTags(mac.tag) :
             mac' = [mac EXCEPT !.stage = "verified", !.presented = mac.message,
                                !.expected_mac = expected_mac,
                                !.verdict = HMAC_verify_exact(mac.hmac, mac.message,
                                                              expected_mac)]
       \/ \E message \in ChangedMessages(mac.message) :
             mac' = [mac EXCEPT !.stage = "verified", !.presented = message,
                                !.expected_mac = mac.tag,
                                !.verdict = HMAC_verify_exact(mac.hmac, message,
                                                              mac.tag)]
    /\ UNCHANGED <<storeVars, rsa, ecc>>

NextHMAC == HmacInit \/ HmacComputeHex \/ HmacVerify

SpecHMAC == InitMAC /\ [][NextHMAC]_vars

\* the number of positions in which two strings of one length differ
Differences(a, b) == Cardinality({i \in 1..Len(a) : a[i] # b[i]})

\* C14: the tag is 64 lowercase hex characters, the published one for the
\* RFC 4231 key and data; verify(message, expected) returns True exactly
\* when expected is the tag of message; it returns False for an expected
\* value of another length, and for the tag of a message that differs from
\* the verified one in a single bit.
C14_VerifyAcceptsOnlyTheTag ==
    /\ mac.stage \in {"tagged", "verified"} =>
          /\ Len(mac.tag) = 64
          /\ \A i \in 1..64 : IsLowerHex(mac.tag[i])
          /\ (mac.key = Rfc4231Key3 /\ mac.message = Rfc4231Data3) =>
                mac.tag = Rfc4231Tag3
    /\ mac.stage = "verified" =>
          /\ mac.presented = mac.message =>
                (mac.verdict <=> mac.expected_mac = mac.tag)
          /\ Len(mac.expected_mac) # 64 => ~mac.verdict
          /\ mac.presented # mac.message => ~mac.verdict

\* a tag of the right length with a single bit changed was rejected
C14_Witness ==
    /\ mac.stage = "verified"
    /\ mac.presented = mac.message
    /\ Len(mac.expected_mac) = 64
    /\ Differences(mac.expected_mac, mac.tag) = 1
    /\ ~mac.verdict

(***************************************************************************)
(* MessageEncryptor (crypto/encryption_utils.py): a message is encrypted   *)
(* for the recipient and signed by the sender, against a key store that is *)
(* provisioned and rotated by rotate_keys and emptied by delete_keys.      *)
(***************************************************************************)
\* the return statement of encrypt_message; a signature Err("retry") means
\* that sign() draws again
SealMessage(encrypted_message, signature, sender_id, recipient_id) ==
    IF ~signature.ok THEN signature
    ELSE Ok([encrypted_message |-> encrypted_message,
             signature_r |-> signature.val[1],
             signature_s |-> signature.val[2],
             sender_id |-> sender_id,
             recipient_id |-> recipient_id])

\* encrypt_message from the sender key lookup on
SignLayer(encrypted_message, sender_ecc_private, message, k, sender_id, recipient_id) ==
    IF ~encrypted_message.ok THEN encrypted_message
    ELSE IF ~sender_ecc_private.ok THEN Err("ValueError: No private key for sender")
    ELSE SealMessage(encrypted_message.val,
                     ECC_sign_try(message, sender_ecc_private.val, k),
                     sender_id, recipient_id)

\* encrypt_message when ECC.sign draws k
MessageEncryptor_encrypt_message(fs, message, sender_id, recipient_id, k) ==
    LET recipient_rsa_public == KM_get_rsa_public_key(fs, recipient_id)
    IN  IF ~recipient_rsa_public.ok THEN Err("ValueError: No public key for recipient")
        ELSE SignLayer(RSA_encrypt(message, recipient_rsa_public.val),
                       KM_get_ecc_private_key(fs, sender_id),
                       message, k, sender_id, recipient_id)

\* the return value of decrypt_and_verify_message once verify has returned
Verified(decrypted_message, signature_valid) ==
    IF ~signature_valid.ok THEN Err(signature_valid.err)
    ELSE Ok(<<decrypted_message, signature_valid.val>>)

\* decrypt_and_verify_message from the sender key lookup on
VerifyLayer(decrypted_message, signature, sender_ecc_public) ==
    IF ~decrypted_message.ok THEN decrypted_message
    ELSE IF ~sender_ecc_public.ok THEN Ok(<<decrypted_message.val, FALSE>>)
    ELSE Verified(decrypted_message.val,
                  ECC_verify(decrypted_message.val, signature, sender_ecc_public.val))

MessageEncryptor_decrypt_and_verify_message(fs, encrypted_dict) ==
    LET recipient_rsa_private == KM_get_rsa_private_key(fs, encrypted_dict.recipient_id)
    IN  IF ~recipient_rsa_private.ok
        THEN Err("ValueError: No private key for recipient")
        ELSE VerifyLayer(RSA_decrypt(encrypted_dict.encrypted_message,
                                     recipient_rsa_private.val),
                         <<encrypted_dict.signature_r, encrypted_dict.signature_s>>,
                         KM_get_ecc_public_key(fs, encrypted_dict.sender_id))

MsgUsers == {"alice", "bob"}

MsgPlaintexts == {<<>>, <<104, 105>>, <<195, 169>>, <<65, 0>>}

\* the values of k on which the loop of ECC.sign is tried
MsgNonces == {3, 7}

\* the clock reading after which keys are rotated no more
MsgMaxClock == 1

\* generate_user_keys and save_keys for user_id on the directory fs
Provisioned(fs, user_id, draw) ==
    KM_save_keys(fs, user_id, KM_generate_user_keys(user_id, draw, 0, 0), "none").files

\* every identity holds a keypair that was saved before the clock started
InitMsg ==
    /\ files \in {Provisioned(Provisioned(<<>>, "alice", draw), "bob", draw) :
                      draw \in EnvKeyDraws}
    /\ clock = 0
    /\ archived = {}
    /\ env = Unset
    /\ res = NoCall
    /\ procs = <<>>
    /\ rsa = NoRsa
    /\ ecc = NoEcc
    /\ mac = NoMac

\* no call depends on the res a decrypt_and_verify_message call left
AfterVerify == res.op = "decrypt_and_verify_message"

\* rotate_keys: replaces the keys of an identity, provisions one whose keys
\* were deleted
MsgRotateKeys ==
    /\ ~AfterVerify
    /\ clock < MsgMaxClock
    /\ \E user_id \in MsgUsers, draw \in EnvKeyDraws :
          LET out == KM_rotate_keys(files, user_id, clock, draw, clock + 1,
                                    clock + 1, "none")
          IN  /\ clock' = clock + 1
              /\ files' = out.files
              /\ res' = [op |-> "rotate_keys", user_id |-> user_id,
                         result |-> out.result]
    /\ UNCHANGED <<archived, env, procs, rsa, ecc, mac>>

MsgDeleteKeys ==
    /\ ~AfterVerify
    /\ \E user_id \in MsgUsers :
          LET out == KM_delete_keys(files, user_id)
          IN  /\ files' = out.files
              /\ res' = [op |-> "delete_keys", user_id |-> user_id,
                         result |-> out.result]
    /\ UNCHANGED <<clock, archived, env, procs, rsa, ecc, mac>>

MsgEncryptMessage ==
    /\ ~AfterVerify
    /\ \E message \in MsgPlaintexts, sender_id \in MsgUsers,
          recipient_id \in MsgUsers, k \in MsgNonces :
          LET out == MessageEncryptor_encrypt_message(files, message, sender_id,
                                                      recipient_id, k)
          IN  /\ out # Err("retry")
              /\ res' = [op |-> "encrypt_message", result |-> out]
              /\ env' = IF out.ok
                        THEN [ok |-> TRUE, val |-> out.val, plaintext |-> message,
                              signer |-> KM_get_ecc_private_key(files, sender_id).val,
                              sealed_under |-> KM_load_public_keys(files, recipient_id)]
                        ELSE env
    /\ UNCHANGED <<files, clock, archived, procs, rsa, ecc, mac>>

MsgDecryptAndVerify ==
    /\ ~AfterVerify
    /\ env.ok
    /\ res' = [op |-> "decrypt_and_verify_message",
               result |-> MessageEncryptor_decrypt_and_verify_message(files, env.val)]
    /\ UNCHANGED <<files, clock, archived, env, procs, rsa, ecc, mac>>

NextMsg ==
    \/ MsgRotateKeys
    \/ MsgDeleteKeys
    \/ MsgEncryptMessage
    \/ MsgDecryptAndVerify

SpecMsg == InitMsg /\ [][NextMsg]_vars

\* the recipient's records in place are the keypair the message was sealed under
RecipientKeysInPlace ==
    /\ KM_load_public_keys(files, env.val.recipient_id) = env.sealed_under
    /\ KM_load_private_keys(files, env.val.recipient_id).ok
    /\ SameKeypair(env.sealed_under.val,
                   KM_load_private_keys(files, env.val.recipient_id).val)

\* the sender's public key in place is the one of the key that signed
SenderKeyInPlace ==
    /\ KM_get_ecc_public_key(files, env.val.sender_id).ok
    /\ Point_eq(KM_get_ecc_public_key(files, env.val.sender_id).val,
                ECC_public_key(env.signer))

\* C15: decrypt_and_verify_message of what encrypt_message(m, sender,
\* recipient) returned gives (m, True) while the keys of both are in place;
\* with the sender's ECC public key missing or replaced it gives (m, False)
\* and raises nothing.
C15_MessageRoundTrip ==
    (res.op = "decrypt_and_verify_message" /\ RecipientKeysInPlace) =>
        IF SenderKeyInPlace THEN res.result = Ok(<<env.plaintext, TRUE>>)
        ELSE res.result = Ok(<<env.plaintext, FALSE>>)

(***************************************************************************)
(* RSA key generation, block padding and the primality test, checked on    *)
(* the RSA engine scenario (SpecRSA) and on the primality scenario below   *)
(***************************************************************************)
IsPrime(n) == n >= 2 /\ \A f \in 2..(n - 1) : n % f # 0

HasBits(n, bits) == Pow2(bits - 1) <= n /\ n < Pow2(bits)

\* the factorisations n = p * q into two values of key_size // 2 bits
Factorisations(n) ==
    {pq \in (Pow2(KeySize \div 2 - 1)..(Pow2(KeySize \div 2) - 1)) \X
            (Pow2(KeySize \div 2 - 1)..(Pow2(KeySize \div 2) - 1)) :
        pq[1] * pq[2] = n}

\* e and d are a key pair for phi = (p - 1)(q - 1)
ExponentsFit(e, d, p, q) ==
    LET phi == (p - 1) * (q - 1)
    IN  /\ IF Gcd(DefaultE, phi) = 1 THEN e = DefaultE ELSE Gcd(e, phi) = 1
        /\ d \in 0..(phi - 1)
        /\ MulMod(e % phi, d, phi) = 1

\* C16: every keypair ((e, n), (d, n)) that generate_keypair returns has
\* n = p * q for two distinct primes p, q of key_size / 2 bits, e = 65537 (or,
\* when that is not coprime to phi, some e coprime to phi), e * d = 1 mod phi
\* and the same n in both keys.
C16_KeypairFromTwoPrimes ==
    rsa.stage # "new" =>
        /\ rsa.public_key[2] = rsa.private_key[2]
        /\ \E pq \in Factorisations(rsa.public_key[2]) :
              /\ pq[1] # pq[2]
              /\ IsPrime(pq[1]) /\ IsPrime(pq[2])
              /\ ExponentsFit(rsa.public_key[1], rsa.private_key[1], pq[1], pq[2])

(***************************************************************************)
(* RSA block scenario: encrypt(p, public) and decrypt(ciphertext, private) *)
(* under a key pair whose modulus is a product of two primes, for moduli   *)
(* of block size 0, 1 and 2                                                *)
(***************************************************************************)
\* the key sizes RSA(key_size=...) is constructed with
BlockKeySizes == {8, 16, KeySize}

\* values random.getrandbits(bits) returns while these keys are generated
BlockRandBits == {1, 3, 7, 13, 53, 63, 123}

\* the primes generate_prime(bits) returns on those draws
BlockPrimes(bits) ==
    {num \in {ForceBits(x, bits) : x \in {y \in BlockRandBits : y < Pow2(bits)}} :
        IsPrime(num)}

BlockKeypairs ==
    UNION {UNION {UNION {RSA_keypairs_from(p, q) : q \in BlockPrimes(ks \div 2) \ {p}} :
                      p \in BlockPrimes(ks \div 2)} : ks \in BlockKeySizes}

\* generate_keypair() of an engine of one of the key sizes, on those draws
BlockGenerateKeypair ==
    /\ rsa.stage = "new"
    /\ \E kp \in BlockKeypairs :
          rsa' = [rsa EXCEPT !.stage = "keyed", !.public_key = kp[1],
                             !.private_key = kp[2]]
    /\ UNCHANGED <<storeVars, ecc, mac>>

NextBlock == BlockGenerateKeypair \/ RsaEncrypt \/ RsaDecrypt

SpecBlock == InitRSA /\ [][NextBlock]_vars

\* r is p without its trailing null bytes
IsStripped(r, p) ==
    /\ Len(r) <= Len(p)
    /\ \A i \in 1..Len(p) : IF i <= Len(r) THEN r[i] = p[i] ELSE p[i] = 0
    /\ ~EndsInNull(r)

RECURSIVE HexValue(_)
HexValue(h) ==
    IF Len(h) = 0 THEN 0
    ELSE 16 * HexValue(SubSeq(h, 1, Len(h) - 1)) + HexVal(h[Len(h)])

\* block number i of p as a big-endian integer, bytes past the end of p zero
PaddedBlockInt(p, block_size, i) ==
    RSA_bytes_to_int([j \in 1..block_size |->
        IF (i - 1) * block_size + j <= Len(p) THEN p[(i - 1) * block_size + j]
        ELSE 0])

CeilDiv(a, b) == (a + b - 1) \div b

\* C19: for every modulus of block size >= 1 and every plaintext, encrypt
\* raises no 'Block too large' error: every zero-padded block is an integer
\* below n, there are ceil(byte_length / block_size) ciphertext blocks and
\* each is block^e mod n, below n.
C19_BlocksBelowModulus ==
    (rsa.stage \in {"encrypted", "decrypted"} /\ BlockSize(rsa.public_key[2]) >= 1) =>
        LET n == rsa.public_key[2]
            block_size == BlockSize(n)
            count == CeilDiv(Len(rsa.plaintext), block_size)
        IN  /\ rsa.ciphertext.ok
            /\ \A i \in 1..count : PaddedBlockInt(rsa.plaintext, block_size, i) < n
            /\ IF count = 0 THEN rsa.ciphertext.val = <<>>
               ELSE /\ Len(Split(rsa.ciphertext.val)) = count
                    /\ \A i \in 1..count :
                          /\ IsHexStr(Split(rsa.ciphertext.val)[i])
                          /\ HexValue(Split(rsa.ciphertext.val)[i]) < n
                          /\ HexValue(Split(rsa.ciphertext.val)[i]) =
                                PowMod(PaddedBlockInt(rsa.plaintext, block_size, i),
                                       rsa.public_key[1], n)

\* a plaintext of more than one block whose last block was padded
C19_Witness ==
    /\ rsa.stage = "encrypted"
    /\ BlockSize(rsa.public_key[2]) = 2
    /\ Len(rsa.plaintext) = 3
    /\ rsa.ciphertext.ok
    /\ Len(Split(rsa.ciphertext.val)) = 2

(***************************************************************************)
(* Primality scenario: is_prime(n, k) run one witness round at a time, and *)
(* generate_prime(bits), which calls is_prime(num) on every candidate      *)
(***************************************************************************)
\* is_prime is called with n in -1..MaxCandidate
MaxCandidate == 30

\* generate_prime is called with bits in 1..MaxPrimeBits
MaxPrimeBits == 5

\* the values of the parameter k; generate_prime uses the default
RoundCounts == {0, 1, MillerRabinRounds}

\* a is a strong liar for the odd number n, n - 1 = 2^r * d: a^d = 1, or
\* a^(d * 2^j) = -1 (mod n) for some 0 <= j < r
StrongLiar(n, a) ==
    \/ PowMod(a, OddPart(n - 1), n) = 1
    \/ \E j \in 0..(TwoExp(n - 1) - 1) : PowMod(a, OddPart(n - 1) * Pow2(j), n) = n - 1

\* the statements of is_prime before the witness loop, and a loop of range(0)
IsPrimeEntry(n, k) ==
    IF n < 2 THEN "False"
    ELSE IF n = 2 \/ n = 3 THEN "True"
    ELSE IF n % 2 = 0 THEN "False"
    ELSE IF k = 0 THEN "True"
    ELSE "loop"

NoPrimeCall == [op |-> "none", pc |-> "idle", n |-> 0, k |-> 0, round |-> 0, a |-> 0,
                all_liars |-> TRUE, verdict |-> FALSE, bits |-> 0, returned |-> 0]

InitPrime ==
    /\ rsa = NoRsa /\ ecc = NoEcc /\ mac = NoMac
    /\ files = <<>> /\ clock = 0 /\ archived = {} /\ env = Unset /\ procs = <<>>
    /\ res = NoPrimeCall

\* is_prime(n) has returned v inside the loop of generate_prime
AfterCandidate(call, v) ==
    IF v = "loop" THEN [call EXCEPT !.pc = "witness"]
    ELSE IF v = "True" THEN [call EXCEPT !.pc = "done", !.verdict = TRUE, !.returned = call.n]
    ELSE [call EXCEPT !.pc = "draw", !.verdict = FALSE]

\* is_prime(n, k) called directly
IsPrimeCall ==
    /\ res.pc \in {"idle", "done"}
    /\ \E n \in (-1)..MaxCandidate, k \in RoundCounts :
          LET call == [NoPrimeCall EXCEPT !.op = "is_prime", !.n = n, !.k = k]
              v == IsPrimeEntry(n, k)
          IN  res' = IF v = "loop" THEN [call EXCEPT !.pc = "witness"]
                     ELSE [call EXCEPT !.pc = "done", !.verdict = (v = "True")]
    /\ UNCHANGED <<files, clock, archived, env, procs, rsa, ecc, mac>>

\* one iteration of "for _ in range(k)": a = random.randrange(2, n - 1)
IsPrimeRound ==
    /\ res.pc = "witness"
    /\ \E a \in 2..(res.n - 2) :
          LET drawn == [res EXCEPT !.a = a, !.round = res.round + 1,
                                   !.all_liars = res.all_liars /\ StrongLiar(res.n, a)]
              v == IF ~WitnessPasses(res.n, a) THEN "False"
                   ELSE IF res.round + 1 = res.k THEN "True"
                   ELSE "loop"
          IN  res' = IF res.op = "generate_prime" THEN AfterCandidate(drawn, v)
                     ELSE IF v = "loop" THEN drawn
                     ELSE [drawn EXCEPT !.pc = "done", !.verdict = (v = "True")]
    /\ UNCHANGED <<files, clock, archived, env, procs, rsa, ecc, mac>>

\* generate_prime(bits) called
GeneratePrimeCall ==
    /\ res.pc \in {"idle", "done"}
    /\ \E bits \in 1..MaxPrimeBits :
          res' = [NoPrimeCall EXCEPT !.op = "generate_prime", !.pc = "draw", !.bits = bits]
    /\ UNCHANGED <<files, clock, archived, env, procs, rsa, ecc, mac>>

\* one iteration of "while True": a candidate is drawn and is_prime(num) begins
GeneratePrimeDraw ==
    /\ res.pc = "draw"
    /\ \E x \in 0..(Pow2(res.bits) - 1) :
          LET num == ForceBits(x, res.bits)
              call == [res EXCEPT !.n = num, !.k = MillerRabinRounds, !.round = 0,
                                  !.a = 0, !.all_liars = TRUE]
          IN  res' = AfterCandidate(call, IsPrimeEntry(num, MillerRabinRounds))
    /\ UNCHANGED <<files, clock, archived, env, procs, rsa, ecc, mac>>

NextPrime == IsPrimeCall \/ IsPrimeRound \/ GeneratePrimeCall \/ GeneratePrimeDraw

SpecPrime == InitPrime /\ [][NextPrime]_vars

\* C20: is_prime(n, k) returns True for every prime n whatever witnesses are
\* drawn, False for every n < 2 and every even n > 2, and True for an odd
\* composite n only when each of the k drawn witnesses is a strong liar;
\* generate_prime(bits) returns only odd values of exactly bits bits that
\* is_prime accepted.
C20_MillerRabinSound ==
    /\ (res.op = "is_prime" /\ res.pc = "done") =>
          /\ IsPrime(res.n) => res.verdict
          /\ res.n < 2 => ~res.verdict
          /\ (res.n > 2 /\ res.n % 2 = 0) => ~res.verdict
          /\ (res.verdict /\ res.n > 3 /\ ~IsPrime(res.n)) =>
                res.round = res.k /\ res.all_liars
    /\ (res.pc = "witness" /\ IsPrime(res.n)) => res.all_liars
    /\ (res.op = "generate_prime" /\ res.pc = "done") =>
          /\ res.returned % 2 = 1
          /\ HasBits(res.returned, res.bits)
          /\ res.returned = res.n /\ res.verdict
          /\ res.n > 3 => res.round = MillerRabinRounds /\ res.all_liars

\* generate_prime returned a composite all of whose witnesses were strong liars
C20_Witness ==
    /\ res.op = "generate_prime" /\ res.pc = "done"
    /\ res.returned = 25
    /\ res.round = MillerRabinRounds /\ res.all_liars

(***************************************************************************)
(* Point arithmetic scenario: P + Q, P.double() and P.scalar_multiply(k)   *)
(* for the points of the curve, the point at infinity included             *)
(***************************************************************************)
\* scalar_multiply is called with k in -MaxScalar..MaxScalar
MaxScalar == 33

\* y^2 = x^3 + a*x + b (mod p)
OnCurve(P) ==
    \/ P = Infinity
    \/ /\ P.x \in 0..(CurveP - 1) /\ P.y \in 0..(CurveP - 1) /\ ~P.is_infinity
       /\ (P.y * P.y) % CurveP = (P.x * P.x * P.x + CurveA * P.x + CurveB) % CurveP

CurvePoints ==
    {Infinity} \cup
        {pt \in {Point(x, y) : x \in 0..(CurveP - 1), y \in 0..(CurveP - 1)} : OnCurve(pt)}

\* the point with the same x and the opposite y
Negated(P) == IF P.is_infinity THEN P ELSE Point(P.x, (-P.y) % CurveP)

InitPoint ==
    /\ rsa = NoRsa /\ ecc = NoEcc /\ mac = NoMac
    /\ files = <<>> /\ clock = 0 /\ archived = {} /\ env = Unset /\ procs = <<>>
    /\ res = [op |-> "none"]

PointAdd ==
    /\ res.op = "none"
    /\ \E P \in CurvePoints, Q \in CurvePoints :
          res' = [op |-> "add", P |-> P, Q |-> Q, result |-> Point_add(P, Q)]
    /\ UNCHANGED <<files, clock, archived, env, procs, rsa, ecc, mac>>

PointDouble ==
    /\ res.op = "none"
    /\ \E P \in CurvePoints :
          res' = [op |-> "double", P |-> P, result |-> Point_double(P)]
    /\ UNCHANGED <<files, clock, archived, env, procs, rsa, ecc, mac>>

PointScalarMultiply ==
    /\ res.op = "none"
    /\ \E P \in CurvePoints, k \in (-MaxScalar)..MaxScalar :
          res' = [op |-> "scalar_multiply", P |-> P, k |-> k,
                  result |-> Point_scalar_multiply(P, k)]
    /\ UNCHANGED <<files, clock, archived, env, procs, rsa, ecc, mac>>

NextPoint == PointAdd \/ PointDouble \/ PointScalarMultiply

SpecPoint == InitPoint /\ [][NextPoint]_vars

\* C21: point addition is the group law and is closed: O + P = P + O = P,
\* P + Q = O when Q has the x of P and the opposite y, P + P = P.double(),
\* and P + Q and P.double() are O or a point on the curve, never an
\* exception; the sum is commutative and associative, and 2P - P = P.
C21_GroupLaw ==
    /\ res.op = "add" =>
          /\ ~IsErr(res.result) /\ OnCurve(res.result)
          /\ res.P = Infinity => res.result = res.Q
          /\ res.Q = Infinity => res.result = res.P
          /\ (res.P # Infinity /\ res.Q = Negated(res.P)) => res.result = Infinity
          /\ res.P = res.Q => res.result = Point_double(res.P)
          /\ res.result = Point_add(res.Q, res.P)
          /\ \A R \in CurvePoints :
                Point_add(res.result, R) = Point_add(res.P, Point_add(res.Q, R))
    /\ res.op = "double" =>
          /\ ~IsErr(res.result) /\ OnCurve(res.result)
          /\ Point_add(res.result, Negated(res.P)) = res.P

\* two different points that are each other's inverse were added
C21_Witness ==
    /\ res.op = "add"
    /\ res.P # Infinity /\ res.Q = Negated(res.P) /\ res.Q # res.P
    /\ res.result = Infinity

\* P added to itself k times with Point addition, k >= 0
RECURSIVE RepeatedSum(_, _)
RepeatedSum(P, k) == IF k = 0 THEN Infinity ELSE Point_add(RepeatedSum(P, k - 1), P)

\* C22: P.scalar_multiply(k) is P added to itself k times for k >= 0 (the
\* infinity point for k = 0 or P at infinity), and the negation of
\* P.scalar_multiply(-k) for k < 0.
C22_ScalarMultiplyIsRepeatedSum ==
    res.op = "scalar_multiply" =>
        IF res.k >= 0 THEN res.result = RepeatedSum(res.P, res.k)
        ELSE res.result = Negated(RepeatedSum(res.P, -res.k))

(***************************************************************************)
(* ECC keystream scenario: two calls of ECC.encrypt, with SHA-256 to the   *)
(* bit, so that key_bytes has its 32 bytes                                 *)
(***************************************************************************)
KeyBytes_exact(shared_secret) ==
    SHA256_hash_exact(StrCoord(shared_secret.x) \o StrCoord(shared_secret.y))

\* encrypt() when random.randint(1, n - 1) returns k
ECC_encrypt_exact(plaintext, public_key, k) ==
    LET C1 == Point_scalar_multiply(CurveG, k)
        shared_secret == Point_scalar_multiply(public_key, k)
    IN  IF IsErr(C1) THEN C1
        ELSE IF IsErr(shared_secret) THEN shared_secret
        ELSE Ok(StrCoord(C1.x) \o <<Comma>> \o StrCoord(C1.y) \o <<Comma>>
                    \o BytesHex(XorStream(plaintext, KeyBytes_exact(shared_secret))))

\* m = int.from_bytes(plaintext_hash[:16], 'big'), kept as its 16 bytes
PlaintextHashPrefix(plaintext) == SubSeq(SHA256_hash_exact(plaintext), 1, 16)

\* private keys of the recipients and the ephemeral scalars drawn
StreamPrivateKeys == {5, 26}
StreamNonces == {3, 28}

AsciiText(n) == [i \in 1..n |-> 32 + ((i * 7 + n) % 90)]

StreamPlaintexts == {<<>>, <<195, 169, 65>>, AsciiText(33), AsciiText(40)}

InitStream ==
    /\ rsa = NoRsa /\ ecc = NoEcc /\ mac = NoMac
    /\ files = <<>> /\ clock = 0 /\ archived = {} /\ env = Unset /\ procs = <<>>
    /\ res = [op |-> "encrypt", runs |-> <<>>]

\* one more call of encrypt(plaintext, public_key)
StreamEncrypt ==
    /\ Len(res.runs) < 2
    /\ \E d \in StreamPrivateKeys, k \in StreamNonces, plaintext \in StreamPlaintexts :
          res' = [res EXCEPT !.runs = Append(@,
                     [plaintext |-> plaintext, public_key |-> ECC_public_key(d), k |-> k,
                      m |-> PlaintextHashPrefix(plaintext),
                      shared_secret |-> Point_scalar_multiply(ECC_public_key(d), k),
                      ciphertext |-> ECC_encrypt_exact(plaintext, ECC_public_key(d), k)])]
    /\ UNCHANGED <<files, clock, archived, env, procs, rsa, ecc, mac>>

NextStream == StreamEncrypt

SpecStream == InitStream /\ [][NextStream]_vars

\* the bytes of C2, the third field of "c1x,c1y,c2_hex"
C2Bytes(run) == BytesFromHex(Split(run.ciphertext.val)[3])

\* keystream byte i as the output shows it: C2[i] XOR plaintext[i]
StreamByte(run, i) == Xor8(C2Bytes(run)[i], run.plaintext[i])

MinOf(a, b) == IF a <= b THEN a ELSE b

\* C23: C2 has the byte length of the plaintext; byte i of C2 is plaintext
\* byte i XOR byte (i mod 32) of the 32-byte keystream, which is the SHA-256
\* digest of the shared point's coordinates; two encryptions with the same
\* shared point satisfy C2_1 XOR C2_2 = p1 XOR p2 on their common length,
\* whatever the values m hashed from the plaintexts.
C23_KeystreamFromSharedPoint ==
    /\ \A r \in 1..Len(res.runs) :
          /\ res.runs[r].ciphertext.ok
          /\ Len(Split(res.runs[r].ciphertext.val)) = 3
          /\ IsHexBytes(Split(res.runs[r].ciphertext.val)[3])
          /\ Len(C2Bytes(res.runs[r])) = Len(res.runs[r].plaintext)
          /\ \A i \in 1..Len(res.runs[r].plaintext) :
                i > 32 => StreamByte(res.runs[r], i) = StreamByte(res.runs[r], i - 32)
    /\ Len(res.runs) = 1 =>
          \A i \in 1..MinOf(32, Len(res.runs[1].plaintext)) :
              StreamByte(res.runs[1], i) = KeyBytes_exact(res.runs[1].shared_secret)[i]
    /\ (Len(res.runs) = 2 /\ res.runs[1].shared_secret = res.runs[2].shared_secret) =>
          \A i \in 1..MinOf(Len(res.runs[1].plaintext), Len(res.runs[2].plaintext)) :
              Xor8(C2Bytes(res.runs[1])[i], C2Bytes(res.runs[2])[i]) =
                  Xor8(res.runs[1].plaintext[i], res.runs[2].plaintext[i])

\* two plaintexts of more than 32 bytes and different length, with different
\* m, were encrypted to the same shared point
C23_Witness ==
    /\ Len(res.runs) = 2
    /\ res.runs[1].shared_secret = res.runs[2].shared_secret
    /\ res.runs[1].k # res.runs[2].k
    /\ Len(res.runs[1].plaintext) = 33 /\ Len(res.runs[2].plaintext) = 40
    /\ res.runs[1].m # res.runs[2].m
    /\ C2Bytes(res.runs[1]) # SubSeq(C2Bytes(res.runs[2]), 1, 33)

(***************************************************************************)
(* HMAC construction scenario: HMAC(key), then compute_hex(message), for   *)
(* keys shorter than, as long as and longer than the block size            *)
(***************************************************************************)
\* key1, data1, key2, data2 of test_hmac (RFC 4231, test cases 1 and 2) and
\* their tags b0344c61...2e32cff7 and 5bdcc146...64ec3843
Rfc4231Key1 == [i \in 1..20 |-> 11]
Rfc4231Data1 == <<72, 105, 32, 84, 104, 101, 114, 101>>
Rfc4231Tag1 ==
    <<98, 48, 51, 52, 52, 99, 54, 49, 100, 56, 100, 98, 51, 56, 53, 51,
      53, 99, 97, 56, 97, 102, 99, 101, 97, 102, 48, 98, 102, 49, 50, 98,
      56, 56, 49, 100, 99, 50, 48, 48, 99, 57, 56, 51, 51, 100, 97, 55,
      50, 54, 101, 57, 51, 55, 54, 99, 50, 101, 51, 50, 99, 102, 102, 55>>
Rfc4231Key2 == <<74, 101, 102, 101>>
Rfc4231Data2 ==
    <<119, 104, 97, 116, 32, 100, 111, 32, 121, 97, 32, 119, 97, 110, 116, 32,
      102, 111, 114, 32, 110, 111, 116, 104, 105, 110, 103, 63>>
Rfc4231Tag2 ==
    <<53, 98, 100, 99, 99, 49, 52, 54, 98, 102, 54, 48, 55, 53, 52, 101,
      54, 97, 48, 52, 50, 52, 50, 54, 48, 56, 57, 53, 55, 53, 99, 55,
      53, 97, 48, 48, 51, 102, 48, 56, 57, 100, 50, 55, 51, 57, 56, 51,
      57, 100, 101, 99, 53, 56, 98, 57, 54, 52, 101, 99, 51, 56, 52, 51>>

\* keys of 0, 1, 63, 64, 65, 66 and 131 bytes besides the three of the tests
ConstructionKeys ==
    {Rfc4231Key1, Rfc4231Key2, Rfc4231Key3}
        \cup {[i \in 1..n |-> (i * 29 + n) % 256] : n \in {0, 1, 63, 64, 65, 66, 131}}

ConstructionMessages ==
    {Rfc4231Data1, Rfc4231Data2, Rfc4231Data3}
        \cup {Pattern(n) : n \in {0, 1, 55, 56, 64, 119, 120}}

ConstructionInit ==
    /\ mac.stage = "new"
    /\ \E key \in ConstructionKeys :
          mac' = [mac EXCEPT !.stage = "keyed", !.key = key,
                             !.hmac = HMAC_init_exact(key)]
    /\ UNCHANGED <<storeVars, rsa, ecc>>

ConstructionComputeHex ==
    /\ mac.stage = "keyed"
    /\ \E message \in ConstructionMessages :
          mac' = [mac EXCEPT !.stage = "tagged", !.message = message,
                             !.tag = HMAC_compute_hex_exact(mac.hmac, message)]
    /\ UNCHANGED <<storeVars, rsa, ecc>>

NextConstruction == ConstructionInit \/ ConstructionComputeHex

SpecConstruction == InitMAC /\ [][NextConstruction]_vars

\* the published tag of a key and message of test_hmac
PublishedTag(key, message) ==
    IF key = Rfc4231Key1 /\ message = Rfc4231Data1 THEN Rfc4231Tag1
    ELSE IF key = Rfc4231Key2 /\ message = Rfc4231Data2 THEN Rfc4231Tag2
    ELSE IF key = Rfc4231Key3 /\ message = Rfc4231Data3 THEN Rfc4231Tag3
    ELSE <<>>

\* C24: the key is replaced by its SHA-256 digest only when longer than 64
\* bytes and then zero-padded to 64 bytes; the stored key, inner_key and
\* outer_key are 64 bytes; inner_key = key XOR 0x36, outer_key = key XOR 0x5c;
\* compute(m) = Hash(outer_key || Hash(inner_key || m)); the tags of RFC 4231
\* test cases 1 to 3 are the published ones.
C24_HmacConstruction ==
    /\ mac.stage = "keyed" =>
          /\ Len(mac.hmac.key) = 64 /\ Len(mac.hmac.inner_key) = 64
          /\ Len(mac.hmac.outer_key) = 64
          /\ Len(mac.key) <= 64 =>
                \A i \in 1..64 :
                    mac.hmac.key[i] = IF i <= Len(mac.key) THEN mac.key[i] ELSE 0
          /\ Len(mac.key) > 64 =>
                /\ SubSeq(mac.hmac.key, 1, 32) = SHA256_hash_exact(mac.key)
                /\ \A i \in 33..64 : mac.hmac.key[i] = 0
          /\ \A i \in 1..64 :
                /\ mac.hmac.inner_key[i] = XorCodes(mac.hmac.key[i], 54)
                /\ mac.hmac.outer_key[i] = XorCodes(mac.hmac.key[i], 92)
    /\ mac.stage = "tagged" =>
          /\ mac.tag = BytesHex(SHA256_hash_exact(mac.hmac.outer_key \o
                           SHA256_hash_exact(mac.hmac.inner_key \o mac.message)))
          /\ PublishedTag(mac.key, mac.message) # <<>> =>
                mac.tag = PublishedTag(mac.key, mac.message)

\* the tag of RFC 4231 test case 2 was computed
C24_Witness ==
    /\ mac.stage = "tagged"
    /\ mac.key = Rfc4231Key2 /\ mac.message = Rfc4231Data2
    /\ mac.tag = Rfc4231Tag2

\* C25: the padded message of an L-byte message has the smallest length that
\* is a multiple of 64 and at least L + 9; it starts with the message, has
\* 0x80 at byte L, zeros up to its last 8 bytes, and 8 * L as a big-endian
\* 64-bit integer in its last 8 bytes; 55 bytes fit one block, 56 need two.
C25_PaddingLayout ==
    mac.stage \in {"padded", "hashed"} =>
        LET L == Len(mac.message)
            N == Len(mac.padded)
        IN  /\ N % 64 = 0 /\ N >= L + 9 /\ N - 64 < L + 9
            /\ SubSeq(mac.padded, 1, L) = mac.message
            /\ mac.padded[L + 1] = 128
            /\ \A i \in (L + 2)..(N - 8) : mac.padded[i] = 0
            /\ RSA_bytes_to_int(SubSeq(mac.padded, N - 7, N)) = 8 * L
            /\ L = 55 => N = 64
            /\ L = 56 => N = 128

\* a 55-byte message was padded to one block
C25_Witness ==
    /\ mac.stage = "padded"
    /\ Len(mac.message) = 55
    /\ Len(mac.padded) = 64
    /\ mac.padded[56] = 128 /\ mac.padded[63] = 1 /\ mac.padded[64] = 184

(***************************************************************************)
(* Stored fields: encrypt_field and decrypt_field against the key store.   *)
(* A stored field is None, the empty string, text that is no JSON          *)
(* document, or the JSON document of a dictionary; json.loads gives back   *)
(* the dictionary of strings json.dumps was handed.                        *)
(***************************************************************************)
FieldNone == [kind |-> "None"]
FieldEmpty == [kind |-> "str", text |-> "empty"]
FieldNotJson == [kind |-> "str", text |-> "not json"]
FieldJson(dict) == [kind |-> "str", text |-> "json", dict |-> dict]

\* a call that returned None
ReturnedNone == [ok |-> TRUE, none |-> TRUE]

\* a field value that is not None, by the text str() gives for it
FieldValue(str) == [kind |-> "value", str |-> str]

\* "return json.dumps(encrypted_dict)", reached unless encrypt_data raised
DumpField(encrypted_dict) ==
    IF ~encrypted_dict.ok THEN encrypted_dict
    ELSE Ok(FieldJson(encrypted_dict.val))

\* encrypt_field
DataEncryptor_encrypt_field(fs, field_value, user_id) ==
    IF field_value = FieldNone THEN ReturnedNone
    ELSE DumpField(DataEncryptor_encrypt_data(fs, field_value.str, user_id,
                                              FALSE, 0))

\* the body of the try statement of decrypt_field
DecryptFieldTry(fs, encrypted_field) ==
    IF encrypted_field.text # "json" THEN Err("JSONDecodeError")
    ELSE IF DOMAIN encrypted_field.dict #
                {"encrypted_data", "mac", "encryption_method", "user_id"}
    THEN Err("KeyError")
    ELSE DataEncryptor_decrypt_data(fs, encrypted_field.dict).result

\* "except Exception": the error is printed and None returned
ExceptException(tried) == IF tried.ok THEN tried ELSE ReturnedNone

\* decrypt_field
DataEncryptor_decrypt_field(fs, encrypted_field) ==
    IF encrypted_field = FieldNone \/ encrypted_field = FieldEmpty THEN ReturnedNone
    ELSE ExceptException(DecryptFieldTry(fs, encrypted_field))

FieldValues == {FieldNone} \cup {FieldValue(str) : str \in EnvPlaintexts}

\* the field as stored, and what a store that was tampered with or
\* corrupted holds in its place
StoredFields(field) ==
    {FieldNone, FieldEmpty, FieldNotJson, FieldJson([mac |-> <<>>])}
        \cup {FieldJson(e) : e \in Presented(field.dict)}

AfterDecryptField == res.op = "decrypt_field"

FieldRotateKeys ==
    ~AfterDecryptField /\ clock < EnvMaxClock /\ RotateKeys(EnvKeyDraws, NoFaults)

FieldDeleteKeys == ~AfterDecryptField /\ DeleteKeys

\* the field encrypt_field returned is stored
FieldStored(out, field_value, user_id) ==
    /\ res' = [op |-> "encrypt_field", user_id |-> user_id, result |-> out]
    /\ env' = IF out.ok /\ out # ReturnedNone
              THEN [ok |-> TRUE, val |-> out.val, plaintext |-> field_value.str]
              ELSE env

FieldEncryptField ==
    /\ ~AfterDecryptField
    /\ \E user_id \in Users, field_value \in FieldValues :
          FieldStored(DataEncryptor_encrypt_field(files, field_value, user_id),
                      field_value, user_id)
    /\ UNCHANGED <<files, clock, archived, procs, rsa, ecc, mac>>

FieldDecryptField ==
    /\ ~AfterDecryptField
    /\ env.ok
    /\ \E encrypted_field \in StoredFields(env.val) :
          res' = [op |-> "decrypt_field", encrypted_field |-> encrypted_field,
                  result |-> DataEncryptor_decrypt_field(files, encrypted_field),
                  tried |-> IF encrypted_field \in {FieldNone, FieldEmpty}
                            THEN ReturnedNone
                            ELSE DecryptFieldTry(files, encrypted_field)]
    /\ UNCHANGED <<files, clock, archived, env, procs, rsa, ecc, mac>>

NextField ==
    \/ FieldRotateKeys
    \/ FieldDeleteKeys
    \/ FieldEncryptField
    \/ FieldDecryptField

SpecField == Init /\ [][NextField]_vars

\* C26: a failure on the decrypt path (MAC mismatch, missing key, malformed
\* ciphertext) is raised to the caller: decrypt_field of a non-empty stored
\* field whose decryption failed does not return None or an empty result.
C26_FailuresAreRaised ==
    (/\ res.op = "decrypt_field"
     /\ res.encrypted_field \notin {FieldNone, FieldEmpty}
     /\ ~res.tried.ok)
    => res.result = res.tried

\* C28: rotate_keys is all-or-nothing on failure: whenever rotate_keys(id)
\* returned False, the current public and private records of id are the
\* ones that were current before the call.
C28_RotateAllOrNothing ==
    (res.op = "rotate_keys" /\ ~res.result)
    => /\ KM_load_public_keys(files, res.user_id) = res.public_before
       /\ KM_load_private_keys(files, res.user_id) = res.private_before

(***************************************************************************)
(* Envelopes altered between encrypt_data and decrypt_data.  Two           *)
(* identities are provisioned by rotate_keys; decrypt_data is handed the   *)
(* envelope with its encryption_method and user_id replaced, with the mac  *)
(* left alone or changed in one character.                                 *)
(***************************************************************************)
TamperUsers == {"alice", "bob"}

TamperPlaintexts == {<<65, 66, 67>>}

TamperMethods == {"RSA", "RSA+ECC", "rsa+ecc", "ECC", ""}

\* the key draws of an identity
TamperKeyDraws(user_id) ==
    {draw \in EnvKeyDraws : draw.ecc = IF user_id = "alice" THEN 5 ELSE 26}

Altered(e) ==
    {[e EXCEPT !.encryption_method = method, !.user_id = user_id, !.mac = mac_hex] :
        method \in TamperMethods,
        user_id \in TamperUsers \cup {"mallory"},
        mac_hex \in {e.mac, [e.mac EXCEPT ![1] = OtherByte(@)]}}

\* rotate_keys for an identity that has no keys yet
TamperRotateKeys ==
    /\ ~AfterDecrypt
    /\ \E user_id \in TamperUsers :
          /\ ~KM_load_public_keys(files, user_id).ok
          /\ \E draw \in TamperKeyDraws(user_id) :
                LET out == KM_rotate_keys(files, user_id, clock, draw, clock + 1,
                                          clock + 1, "none")
                IN  /\ clock' = clock + 1
                    /\ files' = out.files
                    /\ res' = [op |-> "rotate_keys", user_id |-> user_id,
                               result |-> out.result]
    /\ UNCHANGED <<archived, env, procs, rsa, ecc, mac>>

TamperEncryptData ==
    /\ ~AfterDecrypt
    /\ \E user_id \in TamperUsers, data \in TamperPlaintexts,
          use_multi_level \in BOOLEAN, k \in EnvEphemeralKeys :
          LET out == DataEncryptor_encrypt_data(files, data, user_id,
                                                use_multi_level, k)
          IN  /\ res' = [op |-> "encrypt_data", user_id |-> user_id,
                         result |-> out]
              /\ env' = IF out.ok
                        THEN [ok |-> TRUE, val |-> out.val, plaintext |-> data]
                        ELSE env
    /\ UNCHANGED <<files, clock, archived, procs, rsa, ecc, mac>>

TamperDecryptData ==
    /\ ~AfterDecrypt
    /\ env.ok
    /\ \E encrypted_dict \in Altered(env.val) :
          LET out == DataEncryptor_decrypt_data(files, encrypted_dict)
          IN  res' = [op |-> "decrypt_data", envelope |-> encrypted_dict,
                      result |-> out.result, steps |-> out.steps]
    /\ UNCHANGED <<files, clock, archived, env, procs, rsa, ecc, mac>>

NextTamper ==
    \/ TamperRotateKeys
    \/ TamperEncryptData
    \/ TamperDecryptData

SpecTamper == Init /\ [][NextTamper]_vars

\* C27: the outcome of decrypt_data's integrity check depends only on the
\* envelope's encrypted_data and mac: an envelope whose encryption_method or
\* user_id was altered after encrypt_data still passes the MAC check and
\* goes on to the key lookup and decryption with the altered identity and
\* method, and every encryption_method other than the exact string
\* "RSA+ECC" is decrypted as single-level RSA.
C27_MacCoversDataOnly ==
    res.op = "decrypt_data" =>
        LET e == res.envelope
            rsa_private == KM_get_rsa_private_key(files, e.user_id)
            ecc_private == KM_get_ecc_private_key(files, e.user_id)
        IN  /\ (res.result = IntegrityError) <=> ~MacMatches(e)
            /\ MacMatches(e) =>
                 /\ Len(res.steps) >= 2
                 /\ res.steps[2] = "get_rsa_private_key"
                 /\ ~rsa_private.ok =>
                       res.result = Err("ValueError: No private key found")
                 /\ (rsa_private.ok /\ e.encryption_method # "RSA+ECC") =>
                       /\ res.steps = <<"hmac.verify", "get_rsa_private_key",
                                        "rsa.decrypt">>
                       /\ res.result = RSA_decrypt(e.encrypted_data, rsa_private.val)
                 /\ (rsa_private.ok /\ e.encryption_method = "RSA+ECC") =>
                       /\ Len(res.steps) >= 3
                       /\ res.steps[3] = "get_ecc_private_key"
                       /\ ecc_private.ok =>
                             /\ Len(res.steps) >= 4
                             /\ res.steps[4] = "ecc.decrypt"

\* an envelope sealed for one identity with two layers was handed over with
\* the other identity's name and a method that is not "RSA+ECC", and was
\* decrypted with that identity's RSA key alone
C27_Witness ==
    /\ res.op = "decrypt_data"
    /\ env.ok
    /\ env.val.encryption_method = "RSA+ECC"
    /\ res.envelope.encrypted_data = env.val.encrypted_data
    /\ res.envelope.mac = env.val.mac
    /\ res.envelope.encryption_method = "rsa+ecc"
    /\ res.envelope.user_id # env.val.user_id
    /\ KM_load_private_keys(files, res.envelope.user_id).ok
    /\ res.steps = <<"hmac.verify", "get_rsa_private_key", "rsa.decrypt">>

(***************************************************************************)
(* Keys in use past their expiry.  An identity is provisioned once, the    *)
(* clock advances by ticks and by whole validity windows, and the          *)
(* loaders, accessors, check_key_expiration, encrypt_data and decrypt_data *)
(* are called in any order.  Each call records whether the last            *)
(* check_key_expiration before it returned True.                           *)
(***************************************************************************)
\* what the last check_key_expiration returned, False before the first one
ExpiredSeen(r) == IF "expired_seen" \in DOMAIN r THEN r.expired_seen ELSE FALSE

\* check_key_expiration that removes the records it finds expired
ExpiryCheckKeyExpiration_PurgesExpired ==
    /\ \E user_id \in Users :
          LET result == KM_check_key_expiration(files, user_id, clock)
          IN  /\ res' = [op |-> "check_key_expiration", user_id |-> user_id,
                         result |-> result, now |-> clock,
                         files_before |-> files, expired_seen |-> result]
              /\ files' = IF result THEN KM_delete_keys(files, user_id).files
                          ELSE files
    /\ UNCHANGED <<clock, archived, env, procs, rsa, ecc, mac>>

ExpiryCheckKeyExpiration ==
    /\ \E user_id \in Users :
          LET result == KM_check_key_expiration(files, user_id, clock)
          IN  /\ res' = [op |-> "check_key_expiration", user_id |-> user_id,
                         result |-> result, now |-> clock,
                         files_before |-> files, expired_seen |-> result]
              /\ files' = files
    /\ UNCHANGED <<clock, archived, env, procs, rsa, ecc, mac>>

\* rotate_keys for an identity that has no keys yet
ExpiryRotateKeys ==
    /\ \E user_id \in Users, draw \in EnvKeyDraws :
          LET out == KM_rotate_keys(files, user_id, clock, draw, clock + 1,
                                    clock + 1 + draw.gap, "none")
          IN  /\ ~KM_load_public_keys(files, user_id).ok
              /\ Offset(clock) + 1 + draw.gap <= LifeMaxClock
              /\ clock' = clock + 1 + draw.gap
              /\ files' = out.files
              /\ res' = [op |-> "rotate_keys", user_id |-> user_id,
                         result |-> out.result, expired_seen |-> FALSE]
    /\ UNCHANGED <<archived, env, procs, rsa, ecc, mac>>

\* load_public_keys, load_private_keys and the four get_* accessors
ExpiryLoadKeys ==
    /\ \E user_id \in Users :
          res' = [op |-> "load_keys", user_id |-> user_id,
                  public |-> KM_load_public_keys(files, user_id),
                  private |-> KM_load_private_keys(files, user_id),
                  rsa_public |-> KM_get_rsa_public_key(files, user_id),
                  rsa_private |-> KM_get_rsa_private_key(files, user_id),
                  ecc_public |-> KM_get_ecc_public_key(files, user_id),
                  ecc_private |-> KM_get_ecc_private_key(files, user_id),
                  expired_seen |-> ExpiredSeen(res)]
    /\ UNCHANGED <<files, clock, archived, env, procs, rsa, ecc, mac>>

\* the data sealed: text that comes back whole and text that ends in a null
ExpiryPlaintexts == {<<65, 66, 67>>, <<65, 0>>}

\* encrypt_data; the envelope is kept with whether the keys that sealed it had
\* expired by then
ExpiryEncryptData ==
    /\ \E user_id \in Users, data \in ExpiryPlaintexts, use_multi_level \in BOOLEAN,
          k \in EnvEphemeralKeys :
          LET out == DataEncryptor_encrypt_data(files, data, user_id,
                                                use_multi_level, k)
          IN  /\ res' = [op |-> "encrypt_data", user_id |-> user_id,
                         data |-> data, use_multi_level |-> use_multi_level,
                         k |-> k, result |-> out,
                         expired_seen |-> ExpiredSeen(res)]
              /\ env' = IF out.ok
                        THEN [ok |-> TRUE, val |-> out.val, plaintext |-> data,
                              sealed_expired |->
                                  KM_check_key_expiration(files, user_id, clock)]
                        ELSE env
    /\ UNCHANGED <<files, clock, archived, procs, rsa, ecc, mac>>

\* decrypt_data on the envelope encrypt_data returned
ExpiryDecryptData ==
    /\ env.ok
    /\ res' = [op |-> "decrypt_data", user_id |-> env.val.user_id,
               envelope |-> env.val,
               result |-> DataEncryptor_decrypt_data(files, env.val).result,
               expired_seen |-> ExpiredSeen(res)]
    /\ UNCHANGED <<files, clock, archived, env, procs, rsa, ecc, mac>>

NextExpiry ==
    \/ ExpiryRotateKeys
    \/ ExpiryCheckKeyExpiration
    \/ ExpiryLoadKeys
    \/ ExpiryEncryptData
    \/ ExpiryDecryptData
    \/ LifeTick
    \/ LifeElapse

SpecExpiry == Init /\ [][NextExpiry]_vars

\* the key store with the expiry of every public record moved to a time
\* that is still to come
Renewed(fs, now) ==
    [f \in DOMAIN fs |->
        IF f.kind = "public"
        THEN [fs[f] EXCEPT !.data.expires_at = now + KeyLifetime]
        ELSE fs[f]]

CacheKinds == {"rsa", "ecc"}

\* cls._rsa_instance or cls._ecc_instance
CacheAttr(kind) == IF kind = "rsa" THEN "_rsa_instance" ELSE "_ecc_instance"

\* _keys_dir / "rsa_keys.json" or "ecc_keys.json"
KeysFile(kind) == IF kind = "rsa" THEN "rsa_keys.json" ELSE "ecc_keys.json"

\* the key pairs generate_keypair can produce
CacheKeypairs(kind) ==
    IF kind = "rsa"
    THEN {[public_key |-> draw.rsa[1], private_key |-> draw.rsa[2]] :
              draw \in EnvKeyDraws}
    ELSE {[public_key |-> ECC_public_key(d), private_key |-> d] :
              d \in StreamPrivateKeys}

\* RSA(key_size=2048) or ECC(): both keys None
NewInstance(kind) == [kind |-> kind, public_key |-> Absent, private_key |-> Absent]

\* the attribute generate_keypair assigns first: RSA sets public_key and
\* then private_key, ECC private_key and then public_key
FirstAssigned(kind) == IF kind = "rsa" THEN "public_key" ELSE "private_key"
SecondAssigned(kind) == IF kind = "rsa" THEN "private_key" ELSE "public_key"

CacheIdle == [pc |-> "idle", kind |-> "none", inst |-> 0,
              keys |-> NoKeys, result |-> Absent]

NoInstances ==
    [cls |-> [_rsa_instance |-> 0, _ecc_instance |-> 0],
     heap |-> <<>>,
     generated |-> [kind \in CacheKinds |-> 0],
     written |-> [kind \in CacheKinds |-> 0]]

\* a fresh process: no instance yet; the key files are missing (first start)
\* or were written by an earlier run
InitCache ==
    /\ \E present \in SUBSET CacheKinds :
          files = [f \in {KeysFile(kind) : kind \in present} |->
                      CHOOSE keys \in CacheKeypairs(
                          IF f = "rsa_keys.json" THEN "rsa" ELSE "ecc") : TRUE]
    /\ clock = 0
    /\ archived = {}
    /\ env = NoInstances
    /\ res = NoCall
    /\ procs = [p \in ProcIds |-> CacheIdle]
    /\ rsa = NoRsa
    /\ ecc = NoEcc
    /\ mac = NoMac

cacheUnchanged == <<clock, archived, res, rsa, ecc, mac>>

\* "if cls._rsa_instance is None:"
CacheCheck ==
    \E self \in ProcIds, kind \in CacheKinds :
        /\ procs[self].pc = "idle"
        /\ procs' = [procs EXCEPT ![self].kind = kind,
                                  ![self].pc = IF env.cls[CacheAttr(kind)] = 0
                                               THEN "create" ELSE "return"]
        /\ UNCHANGED <<files, env>>
        /\ UNCHANGED cacheUnchanged

\* "cls._rsa_instance = RSA(key_size=2048)"
CacheCreate ==
    \E self \in ProcIds :
        /\ procs[self].pc = "create"
        /\ env' = [env EXCEPT !.heap = Append(@, NewInstance(procs[self].kind)),
                              !.cls[CacheAttr(procs[self].kind)] = Len(env.heap) + 1]
        /\ procs' = [procs EXCEPT ![self].pc = "load"]
        /\ UNCHANGED files
        /\ UNCHANGED cacheUnchanged

\* "_load_rsa_keys(cls._rsa_instance)": the file test, json.load and the
\* assignment of public_key, or False
CacheLoad ==
    \E self \in ProcIds :
        LET kind == procs[self].kind
            inst == env.cls[CacheAttr(kind)]
        IN  /\ procs[self].pc = "load"
            /\ IF KeysFile(kind) \in DOMAIN files
               THEN /\ env' = [env EXCEPT !.heap[inst].public_key =
                                              Ok(files[KeysFile(kind)].public_key)]
                    /\ procs' = [procs EXCEPT ![self].pc = "load_private",
                                              ![self].inst = inst,
                                              ![self].keys = files[KeysFile(kind)]]
               ELSE /\ env' = env
                    /\ procs' = [procs EXCEPT ![self].pc = "generate"]
            /\ UNCHANGED files
            /\ UNCHANGED cacheUnchanged

\* the assignment of private_key in _load_rsa_keys, and "return True"
CacheLoadPrivate ==
    \E self \in ProcIds :
        /\ procs[self].pc = "load_private"
        /\ env' = [env EXCEPT !.heap[procs[self].inst].private_key =
                                  Ok(procs[self].keys.private_key)]
        /\ procs' = [procs EXCEPT ![self].pc = "return"]
        /\ UNCHANGED files
        /\ UNCHANGED cacheUnchanged

\* "cls._rsa_instance.generate_keypair()" up to its first attribute assignment
CacheGenerate ==
    \E self \in ProcIds :
        LET kind == procs[self].kind
            inst == env.cls[CacheAttr(kind)]
        IN  /\ procs[self].pc = "generate"
            /\ \E keys \in CacheKeypairs(kind) :
                  /\ env' = [env EXCEPT
                                !.heap[inst][FirstAssigned(kind)] =
                                    Ok(keys[FirstAssigned(kind)]),
                                !.generated[kind] = @ + 1]
                  /\ procs' = [procs EXCEPT ![self].pc = "generate_second",
                                            ![self].inst = inst,
                                            ![self].keys = keys]
            /\ UNCHANGED files
            /\ UNCHANGED cacheUnchanged

\* the second attribute assignment of generate_keypair
CacheGenerateSecond ==
    \E self \in ProcIds :
        LET kind == procs[self].kind
        IN  /\ procs[self].pc = "generate_second"
            /\ env' = [env EXCEPT
                          !.heap[procs[self].inst][SecondAssigned(kind)] =
                              Ok(procs[self].keys[SecondAssigned(kind)])]
            /\ procs' = [procs EXCEPT ![self].pc = "save"]
            /\ UNCHANGED files
            /\ UNCHANGED cacheUnchanged

\* "cls._save_rsa_keys(cls._rsa_instance)": subscripting a key that is None
\* raises, and the exception leaves get_rsa_instance
CacheSave ==
    \E self \in ProcIds :
        LET kind == procs[self].kind
            instance == env.heap[env.cls[CacheAttr(kind)]]
        IN  /\ procs[self].pc = "save"
            /\ IF instance.public_key.ok /\ instance.private_key.ok
               THEN /\ files' = [f \in DOMAIN files \cup {KeysFile(kind)} |->
                                    IF f = KeysFile(kind)
                                    THEN [public_key |-> instance.public_key.val,
                                          private_key |-> instance.private_key.val]
                                    ELSE files[f]]
                    /\ env' = [env EXCEPT !.written[kind] = @ + 1]
                    /\ procs' = [procs EXCEPT ![self].pc = "return"]
               ELSE /\ files' = files
                    /\ env' = env
                    /\ procs' = [procs EXCEPT ![self].pc = "done",
                                              ![self].result = Err("TypeError")]
            /\ UNCHANGED cacheUnchanged

\* "return cls._rsa_instance": the instance and the keys it has when the
\* caller receives it
CacheReturn ==
    \E self \in ProcIds :
        LET inst == env.cls[CacheAttr(procs[self].kind)]
        IN  /\ procs[self].pc = "return"
            /\ procs' = [procs EXCEPT
                            ![self].pc = "done",
                            ![self].result =
                                Ok([instance |-> inst,
                                    public_key |-> env.heap[inst].public_key,
                                    private_key |-> env.heap[inst].private_key])]
            /\ UNCHANGED <<files, env>>
            /\ UNCHANGED cacheUnchanged

NextCache ==
    \/ CacheCheck
    \/ CacheCreate
    \/ CacheLoad
    \/ CacheLoadPrivate
    \/ CacheGenerate
    \/ CacheGenerateSecond
    \/ CacheSave
    \/ CacheReturn

SpecCache == InitCache /\ [][NextCache]_vars

\* C30: under any interleaving of concurrent first calls of get_rsa_instance
\* (likewise get_ecc_instance) every caller receives the same instance with
\* public_key and private_key both set, and at most one keypair is generated
\* and written to the key file.
C30_InstanceCreatedOnce ==
    /\ \A p \in ProcIds :
          procs[p].pc = "done" =>
              /\ procs[p].result.ok
              /\ procs[p].result.val.public_key.ok
              /\ procs[p].result.val.private_key.ok
    /\ \A p, q \in ProcIds :
          (/\ procs[p].pc = "done" /\ procs[q].pc = "done"
           /\ procs[p].kind = procs[q].kind
           /\ procs[p].result.ok /\ procs[q].result.ok)
          => procs[p].result.val.instance = procs[q].result.val.instance
    /\ \A kind \in CacheKinds :
          env.generated[kind] <= 1 /\ env.written[kind] <= 1

====
